---------------------------- MODULE Spec2Model ----------------------------
(***************************************************************************)
(* Model of the CPL matching engine (src/src/matching.py) and of the       *)
(* Streamlit workflow that feeds it (src/app.py, src/src/db.py,            *)
(* src/src/workflow.py, src/src/retrieval_agent.py).                       *)
(*                                                                         *)
(* Numbers.  Python floats are modelled as exact fixed-point numbers with  *)
(* unit 1/One: the integer x stands for the real x/One.  One is a multiple *)
(* of 10000 and of every credit-point magnitude of the input sets, so that *)
(* every product and quotient the code computes on the modelled inputs is  *)
(* exact (IEEE rounding is not modelled).                                  *)
(*                                                                         *)
(* Strings are TLA+ strings; str.strip() and str.lower() are computed      *)
(* character by character.  Python's None is the value PyNone.             *)
(***************************************************************************)
EXTENDS Integers, Sequences, FiniteSets, TLC

VARIABLES
    external_units,   \* table external_units (src/src/db.py): sequence of rows
    shea_units,       \* table shea_units: sequence of rows
    suggestions,      \* table suggestions: sequence of rows
    seq,              \* sqlite_sequence: last AUTOINCREMENT id handed out per table
    session,          \* st.session_state (src/app.py): current_external_ids
    gm_calls,         \* generate_matches calls of the last operation: arguments and returned list
    fn_call,          \* last direct call of a component scorer: function, arguments, return value
    decisions         \* table decisions: sequence of rows, never deleted

vars == <<external_units, shea_units, suggestions, seq, session, gm_calls, fn_call, decisions>>

---------------------------------------------------------------------------
(* Bounds of the model *)

\* largest catalog pool handed to generate_matches in the ranking inputs
MaxPool == 3
\* largest top_k tried (the UI slider allows 1..3, the core any positive integer)
MaxTopK == 4
\* largest number of external units in one generate_matches call
MaxExt == 2
\* largest AUTOINCREMENT id handed out to external units in the workflow
MaxRowId == 2
\* largest AUTOINCREMENT id handed out to catalog units in the workflow
MaxSheaId == 2
\* largest AUTOINCREMENT id handed out to suggestions in the workflow
MaxSuggestionId == 4

---------------------------------------------------------------------------
(* Python values *)

\* None (not a str)
PyNone == "<None>"

\* str(x)
Str(x) == IF x = PyNone THEN "None" ELSE x

\* x or ""   (None and "" are falsy)
OrEmpty(x) == IF x = PyNone THEN "" ELSE x

Char(s, i) == SubSeq(s, i, i)

IsSpace(c) == c \in {" ", "\t", "\n"}

RECURSIVE LStrip(_)
LStrip(s) ==
    IF Len(s) > 0 /\ IsSpace(Char(s, 1)) THEN LStrip(SubSeq(s, 2, Len(s))) ELSE s

RECURSIVE RStrip(_)
RStrip(s) ==
    IF Len(s) > 0 /\ IsSpace(Char(s, Len(s))) THEN RStrip(SubSeq(s, 1, Len(s) - 1)) ELSE s

\* str.strip()
Strip(s) == RStrip(LStrip(s))

UpperLetters == "ABCDEFGHIJKLMNOPQRSTUVWXYZ"
LowerLetters == "abcdefghijklmnopqrstuvwxyz"

\* the letters whose case str.lower() and str.upper() change (ASCII)
LowerOf == [c \in {Char(UpperLetters, i) : i \in 1..26} |->
               Char(LowerLetters, CHOOSE i \in 1..26 : Char(UpperLetters, i) = c)]
UpperOf == [c \in {Char(LowerLetters, i) : i \in 1..26} |->
               Char(UpperLetters, CHOOSE i \in 1..26 : Char(LowerLetters, i) = c)]

LowerChar(c) == IF c \in DOMAIN LowerOf THEN LowerOf[c] ELSE c

UpperChar(c) == IF c \in DOMAIN UpperOf THEN UpperOf[c] ELSE c

RECURSIVE Lower(_)
\* str.lower()
Lower(s) ==
    IF Len(s) = 0 THEN ""
    ELSE IF Len(s) = 1 THEN LowerChar(s)
    ELSE Lower(SubSeq(s, 1, Len(s) \div 2)) \o Lower(SubSeq(s, Len(s) \div 2 + 1, Len(s)))

RECURSIVE Upper(_)
\* str.upper()
Upper(s) ==
    IF Len(s) = 0 THEN ""
    ELSE IF Len(s) = 1 THEN UpperChar(s)
    ELSE Upper(SubSeq(s, 1, Len(s) \div 2)) \o Upper(SubSeq(s, Len(s) \div 2 + 1, Len(s)))

\* sub in s
Contains(s, sub) ==
    \E i \in 1..(Len(s) - Len(sub) + 1) : SubSeq(s, i, i + Len(sub) - 1) = sub

Digits == "0123456789"
IsDigit(c) == \E i \in 1..10 : Char(Digits, i) = c
DigitVal(c) == (CHOOSE i \in 1..10 : Char(Digits, i) = c) - 1

RECURSIVE DigitsVal(_)
DigitsVal(s) ==
    IF Len(s) = 0 THEN 0
    ELSE 10 * DigitsVal(SubSeq(s, 1, Len(s) - 1)) + DigitVal(Char(s, Len(s)))

AllDigits(s) == Len(s) > 0 /\ \A i \in 1..Len(s) : IsDigit(Char(s, i))

Abs(x) == IF x < 0 THEN -x ELSE x
Min(a, b) == IF a <= b THEN a ELSE b
Max(a, b) == IF a >= b THEN a ELSE b

RECURSIVE Gcd(_, _)
Gcd(a, b) == IF b = 0 THEN a ELSE Gcd(b, a % b)
Lcm(a, b) == (a * b) \div Gcd(a, b)

RECURSIVE LcmOf(_)
LcmOf(S) == IF S = {} THEN 1 ELSE LET x == CHOOSE x \in S : TRUE IN Lcm(x, LcmOf(S \ {x}))

---------------------------------------------------------------------------
(* Input sets of the component scorers *)

\* credit_points values: missing, empty, non-numeric, zero, numeric text with
\* and without surrounding blanks, negative numbers, the retrieval agent's
\* "10 credit points" form
CreditInputs ==
    {PyNone, "", "abc", "0", "10", "12", " 12 ", "20", "5", "-10", "-20", "10 credit points"}

\* grade values: missing, empty, every tier in several spellings, with
\* surrounding blanks and mixed case, unrecognized tokens
GradeInputs ==
    {PyNone, "", "HD", "High Distinction", " distinction ", "DN", "d", "Credit", "CR", "c",
     "Pass", "ps", "P", "Competent", "Fail", " FAIL\t", "FL", "f", "N", "nn", "NYC",
     "Not Yet Competent", "not competent", "Unsatisfactory", "failed", "A+", "W", "f ail"}

---------------------------------------------------------------------------
(* Fixed-point arithmetic *)

\* float(str(s).strip()) restricted to integer literals; 0 on failure
MutSafeNumNoStrip(s) ==
    LET t == Str(s)
        body == IF Len(t) > 0 /\ Char(t, 1) \in {"-", "+"} THEN SubSeq(t, 2, Len(t)) ELSE t
    IN  IF ~AllDigits(body) THEN 0
        ELSE IF Len(t) > 0 /\ Char(t, 1) = "-" THEN -DigitsVal(body) ELSE DigitsVal(body)

_safe_num(s) ==
    LET t == Strip(Str(s))
        body == IF Len(t) > 0 /\ Char(t, 1) \in {"-", "+"} THEN SubSeq(t, 2, Len(t)) ELSE t
    IN  IF ~AllDigits(body) THEN 0
        ELSE IF Len(t) > 0 /\ Char(t, 1) = "-" THEN -DigitsVal(body) ELSE DigitsVal(body)

\* common denominator of the quotients |a-b| / max(a,b) over the credit inputs
CreditDen == LcmOf({Abs(_safe_num(c)) : c \in CreditInputs} \ {0})

\* the fixed-point representation of 1.0
One == 10000 * CreditDen

\* n/100 as a fixed-point number
Pct(n) == n * (One \div 100)

\* (n/100) * x
Times(n, x) == (n * x) \div 100

\* exact quotient a / b of integers as a fixed-point number, b # 0
Quot(a, b) == IF b < 0 THEN -((a * One) \div (-b)) ELSE (a * One) \div b

\* float(max(0.0, min(1.0, x)))
Clamp01(x) == Max(0, Min(One, x))

\* num / den rounded to the nearest integer, ties to even, den > 0
RoundHalfEven(num, den) ==
    LET q == num \div den
        r == num % den
    IN  IF 2 * r < den THEN q
        ELSE IF 2 * r > den THEN q + 1
        ELSE IF q % 2 = 0 THEN q ELSE q + 1

RECURSIVE IntToStr(_)
\* str(n) for n >= 0
IntToStr(n) ==
    IF n < 10 THEN Char(Digits, n + 1) ELSE IntToStr(n \div 10) \o Char(Digits, (n % 10) + 1)

\* f"{x:.1f}" and f"{x:.2f}" of the fixed-point number x (d = 1, 2)
Fmt(x, d) ==
    LET p == IF d = 1 THEN 10 ELSE 100
        n == RoundHalfEven(Abs(x) * p, One)
        frac == IntToStr(n % p)
    IN  (IF x < 0 THEN "-" ELSE "") \o IntToStr(n \div p) \o "."
            \o (IF d = 2 /\ Len(frac) = 1 THEN "0" ELSE "") \o frac

---------------------------------------------------------------------------
(* Component scorers (src/src/matching.py) *)

MutCompatNoTolerance(a, b, tolerance) ==
    LET aa == _safe_num(a)
        bb == _safe_num(b)
    IN  IF aa = 0 \/ bb = 0 THEN 0
        ELSE IF Abs(aa - bb) <= 0 THEN One
        ELSE Max(0, One - Quot(Abs(aa - bb), Max(aa, bb)))

_compat_score(a, b, tolerance) ==
    LET aa == _safe_num(a)
        bb == _safe_num(b)
    IN  IF aa = 0 \/ bb = 0 THEN 0
        ELSE IF Abs(aa - bb) <= tolerance THEN One
        ELSE Max(0, One - Quot(Abs(aa - bb), Max(aa, bb)))

NonPassingTokens ==
    {"fail", "fl", "f", "n", "nn", "nyc", "not yet competent", "not competent", "unsatisfactory"}

MutNonPassingNoNormalize(grade) == OrEmpty(grade) \in NonPassingTokens

_is_non_passing_grade(grade) == Lower(Strip(Str(OrEmpty(grade)))) \in NonPassingTokens

MutGradeBonusNoPenalty(grade) ==
    LET g == Lower(Strip(Str(OrEmpty(grade))))
    IN  IF g \in {"hd", "high distinction"} THEN Pct(10)
        ELSE IF g \in {"distinction", "dn", "d"} THEN Pct(7)
        ELSE IF g \in {"credit", "cr", "c"} THEN Pct(4)
        ELSE 0

_grade_bonus(grade) ==
    LET g == Lower(Strip(Str(OrEmpty(grade))))
    IN  IF g \in {"hd", "high distinction"} THEN Pct(10)
        ELSE IF g \in {"distinction", "dn", "d"} THEN Pct(7)
        ELSE IF g \in {"credit", "cr", "c"} THEN Pct(4)
        ELSE IF g \in {"pass", "ps", "p", "competent"} THEN 0
        ELSE IF _is_non_passing_grade(g) THEN -Pct(10)
        ELSE 0

MutBandMediumAt50(score) ==
    IF score >= Pct(70) THEN "High"
    ELSE IF score >= Pct(50) THEN "Medium"
    ELSE "Low"

_confidence_band(score) ==
    IF score >= Pct(70) THEN "High"
    ELSE IF score >= Pct(45) THEN "Medium"
    ELSE "Low"

---------------------------------------------------------------------------
(* Sorting: sorted(..., key=..., reverse=True) and list.sort(key=...,      *)
(* reverse=True) are stable: elements with equal keys keep their order.    *)
(* The elements are pairs <<key, payload>>.                                *)

\* position at which x goes into the descending sequence s: after every
\* element whose key is >= the key of x
InsertPos(s, x) ==
    IF \E i \in 1..Len(s) : s[i][1] < x[1]
    THEN CHOOSE i \in 1..Len(s) : s[i][1] < x[1] /\ \A j \in 1..(i - 1) : s[j][1] >= x[1]
    ELSE Len(s) + 1

InsertDesc(s, x) ==
    LET p == InsertPos(s, x)
    IN  SubSeq(s, 1, p - 1) \o <<x>> \o SubSeq(s, p, Len(s))

RECURSIVE SortDescStable(_)
SortDescStable(s) ==
    IF Len(s) = 0 THEN <<>>
    ELSE InsertDesc(SortDescStable(SubSeq(s, 1, Len(s) - 1)), s[Len(s)])

\* s[:k] for k >= 0
Take(s, k) == SubSeq(s, 1, Min(k, Len(s)))

---------------------------------------------------------------------------
(* generate_matches (src/src/matching.py)                                  *)
(*                                                                         *)
(* An external unit is a record with the fields the scoring reads: grade,  *)
(* credit_points (strings or PyNone) and retrieval_confidence (<<>> for    *)
(* None/NULL or a missing key, <<x>> for the float x, StrConfidence(s) for *)
(* the str s).  A catalog unit has credit_points.   *)
(* The similarity provider is an oracle: prov holds the four matrices the  *)
(* four _compute_similarity calls return (sim_matrix, name_sim, desc_sim,  *)
(* outcomes_sim), indexed [external][catalog], and the method they report. *)
(* prov.llm is the summarizer oracle of src/src/llm_assist.py.  Indices    *)
(* are 1-based.                                                            *)

\* a str held in retrieval_confidence
StrConfidence(s) == <<"str", s>>

\* float(s) accepts the str s (restricted to integer literals, as _safe_num)
IsFloatLiteral(s) ==
    LET t == Strip(s)
        body == IF Len(t) > 0 /\ Char(t, 1) \in {"-", "+"} THEN SubSeq(t, 2, Len(t)) ELSE t
    IN  AllDigits(body)

\* float(x or 0.0) raises ValueError: x is a non-empty str that is no number
FloatRaises(x) == IF Len(x) = 2 THEN x[2] # "" /\ ~IsFloatLiteral(x[2]) ELSE FALSE

\* float(x or 0.0)
FloatOrZero(x) ==
    IF x = <<>> THEN 0
    ELSE IF Len(x) = 2 THEN _safe_num(x[2]) * One
    ELSE x[1]

\* the parts dict of one pair
Parts(ext, shea, prov, e, c) ==
    LET outcomes == Clamp01(prov.outcomes_sim[e][c])
        credit == _compat_score(ext.credit_points, shea.credit_points, 2)
    IN  [name |-> Clamp01(prov.name_sim[e][c]),
         desc |-> Clamp01(prov.desc_sim[e][c]),
         outcomes |-> Clamp01(outcomes),
         credit |-> Clamp01(credit),
         grade_bonus |-> _grade_bonus(ext.grade)]

WeightedSum(parts) ==
    Times(20, parts.name) + Times(35, parts.desc) + Times(35, parts.outcomes)
        + Times(10, parts.credit) + parts.grade_bonus

RetrievalBonus(ext) == Times(8, FloatOrZero(ext.retrieval_confidence))

MutNoLowEvidenceCap(score, parts) == score

\* Guardrail: name-only match can't be high confidence
LowEvidenceCap(score, parts) ==
    IF parts.outcomes < Pct(15) /\ parts.desc < Pct(20) THEN Min(score, Pct(58)) ELSE score

MutNoNonPassingCap(score, flagged) == score

NonPassingCap(score, flagged) == IF flagged THEN Min(score, Pct(20)) ELSE score

MutScoreNoClamp(ext, parts) ==
    LET s1 == WeightedSum(parts) + RetrievalBonus(ext)
        s2 == LowEvidenceCap(s1, parts)
    IN  NonPassingCap(s2, _is_non_passing_grade(ext.grade))

MutScoreNoRetrieval(ext, parts) ==
    LET s1 == Min(One, WeightedSum(parts))
        s2 == LowEvidenceCap(s1, parts)
        s3 == Clamp01(s2)
    IN  NonPassingCap(s3, _is_non_passing_grade(ext.grade))

\* the final score of one pair
FinalScore(ext, parts) ==
    LET s1 == Min(One, WeightedSum(parts) + RetrievalBonus(ext))
        s2 == LowEvidenceCap(s1, parts)
        s3 == Clamp01(s2)
    IN  NonPassingCap(s3, _is_non_passing_grade(ext.grade))

MutBandIgnoresFlag(ext, score) == _confidence_band(score)

Band(ext, score) ==
    IF _is_non_passing_grade(ext.grade) THEN "Flagged" ELSE _confidence_band(score)

\* d.get(key, default)
Get(d, key, default) == IF key \in DOMAIN d THEN d[key] ELSE default

RECURSIVE Filler(_)
Filler(n) == IF n = 0 THEN "" ELSE "." \o Filler(n - 1)

\* str(t or "") of a free text t: a pair <<s, n>> standing for s followed by
\* n filler characters ".", <<>> for None
TextStr(t) == IF t = <<>> THEN "" ELSE t[1] \o Filler(t[2])

MutFallbackStrongAt70(score) ==
    IF score >= Pct(70) THEN "strong"
    ELSE IF score >= Pct(50) THEN "moderate"
    ELSE "low"

\* the confidence wording of the deterministic fallback (src/src/llm_assist.py)
FallbackWording(score) ==
    IF score >= Pct(75) THEN "strong"
    ELSE IF score >= Pct(50) THEN "moderate"
    ELSE "low"

FallbackSentence(ext_title, shea_title, score) ==
    "AI-style summary: " \o ext_title \o " and " \o shea_title \o " show "
        \o FallbackWording(score) \o " alignment overall (score " \o Fmt(score, 2) \o "). "
        \o "The comparison is based on overlap between unit descriptions and learning outcomes. "
        \o "Please review specific outcome verbs and scope depth before final approval."

MutCompareNoFallbackOnEmpty(external_unit, shea_unit, score, llm) ==
    IF llm.enabled /\ llm.res # <<>> /\ "explanation" \in DOMAIN llm.res[1]
    THEN Strip(Str(llm.res[1].explanation))
    ELSE FallbackSentence(TextStr(external_unit.title), TextStr(shea_unit.title), score)

\* compare_units_natural_language: llm is the summarizer of the call,
\* [enabled |-> llm_enabled(), res |-> what _chat_json returns]: <<>> for None
\* (no key, request or JSON failure), <<d>> for the dict d
compare_units_natural_language(external_unit, shea_unit, score, llm) ==
    IF llm.enabled /\ llm.res # <<>>
        /\ Strip(Str(Get(llm.res[1], "explanation", ""))) # ""
    THEN Strip(Str(llm.res[1].explanation))
    ELSE FallbackSentence(TextStr(external_unit.title), TextStr(shea_unit.title), score)

\* the summarizer without OPENAI_API_KEY
LlmOff == [enabled |-> FALSE, res |-> <<>>]

FlagWarning == "FLAG: Non-passing/Not Competent grade. Do NOT auto-approve credit. "

LowEvidenceReason ==
    "Low confidence because match is mostly name-based and lacks course-content evidence"

MutReasonIgnoresDesc(parts) ==
    IF parts.outcomes < Pct(15) THEN LowEvidenceReason
    ELSE IF parts.outcomes >= Pct(40) THEN "Good content alignment from learning outcomes/topics"
    ELSE "Moderate alignment; check outcomes and AQF/credit manually"

\* the reason of _explanation
Reason(parts) ==
    IF parts.desc < Pct(20) /\ parts.outcomes < Pct(15) THEN LowEvidenceReason
    ELSE IF parts.outcomes >= Pct(40) THEN "Good content alignment from learning outcomes/topics"
    ELSE "Moderate alignment; check outcomes and AQF/credit manually"

\* _explanation: the explanation string as the sequence of the pieces the
\* f-string concatenates (the reason, the figures, the retrieval source and
\* the summarizer's text)
_explanation(external, shea, final_score, method, parts, llm) ==
    LET retrieval_mode == IF Get(external, "retrieval_mode", PyNone) \in {PyNone, ""}
                          THEN "transcript-only" ELSE external.retrieval_mode
        retrieval_conf == FloatOrZero(Get(external, "retrieval_confidence", <<>>))
        ai_text == compare_units_natural_language(
                       [title |-> Get(external, "title", <<>>)],
                       [title |-> Get(shea, "title", <<>>)], final_score, llm)
    IN  <<Reason(parts),
          ". Method=" \o method \o ". Confidence=" \o Fmt(100 * final_score, 1) \o "%. ",
          "Components: name " \o Fmt(parts.name, 2) \o ", description " \o Fmt(parts.desc, 2)
              \o ", outcomes " \o Fmt(parts.outcomes, 2) \o ", credit " \o Fmt(parts.credit, 2)
              \o ", grade_bonus " \o Fmt(parts.grade_bonus, 2) \o ". ",
          "Retrieval source: " \o retrieval_mode \o " (" \o Fmt(retrieval_conf, 2) \o "). ",
          ai_text>>

MutExplanationNoFlag(ext, shea, score, method, parts, llm) ==
    _explanation(ext, shea, score, method, parts, llm)

\* the explanation of a result: the warning is prepended for a non-passing grade
Explanation(ext, shea, score, method, parts, llm) ==
    (IF _is_non_passing_grade(ext.grade) THEN <<FlagWarning>> ELSE <<>>)
        \o _explanation(ext, shea, score, method, parts, llm)

\* the MatchResult of external unit e and catalog unit c
Result(externals, sheas, prov, e, c) ==
    LET ext == externals[e]
        parts == Parts(ext, sheas[c], prov, e, c)
        score == FinalScore(ext, parts)
    IN  [external_idx |-> e,
         shea_idx |-> c,
         score |-> score,
         confidence_band |-> Band(ext, score),
         explanation |-> Explanation(ext, sheas[c], score, prov.method, parts, prov.llm),
         name_sim |-> parts.name,
         desc_sim |-> parts.desc,
         outcomes_sim |-> parts.outcomes,
         credit_sim |-> parts.credit,
         grade_bonus |-> parts.grade_bonus,
         retrieval_bonus |-> RetrievalBonus(ext)]

MutRankedAscending(row, top_k) ==
    LET n == Len(row)
        asc == SortDescStable([j \in 1..n |-> <<-row[j], j>>])
    IN  [i \in 1..Min(top_k, n) |-> asc[i][2]]

MutRankedNoSlice(row, top_k) ==
    LET sorted == SortDescStable([j \in 1..Len(row) |-> <<row[j], j>>])
    IN  [i \in 1..Len(sorted) |-> sorted[i][2]]

\* sorted(enumerate(row), key=lambda x: x[1], reverse=True)[:top_k], the indices
Ranked(row, top_k) ==
    LET sorted == Take(SortDescStable([j \in 1..Len(row) |-> <<row[j], j>>]), top_k)
    IN  [i \in 1..Len(sorted) |-> sorted[i][2]]

RECURSIVE Emitted(_, _, _, _, _)
\* the results list after the loop over the first n external units
Emitted(externals, sheas, top_k, prov, n) ==
    IF n = 0 THEN <<>>
    ELSE LET ranked == Ranked(prov.sim_matrix[n], top_k)
         IN  Emitted(externals, sheas, top_k, prov, n - 1)
                 \o [i \in 1..Len(ranked) |-> Result(externals, sheas, prov, n, ranked[i])]

MutResultsUnsorted(results) == results

\* results.sort(key=lambda r: r.score, reverse=True)
SortResults(results) ==
    LET sorted == SortDescStable([i \in 1..Len(results) |-> <<results[i].score, results[i]>>])
    IN  [i \in 1..Len(sorted) |-> sorted[i][2]]

generate_matches(externals, sheas, top_k, prov) ==
    IF Len(externals) = 0 \/ Len(sheas) = 0 THEN <<>>
    ELSE SortResults(Emitted(externals, sheas, top_k, prov, Len(externals)))

---------------------------------------------------------------------------
(* Inputs of generate_matches *)

\* 1 x 1 calls: every component varies, including provider values outside
\* [0,1], the guardrail thresholds and both sides of them
ScoreGrades == {PyNone, "HD", " distinction ", "Credit", "Pass", " FAIL\t", "NYC", "A+"}
ScoreExtCredits == {PyNone, "10", "20", "-10"}
ScoreSheaCredits == {"10", " 12 ", "5", "abc", "-20"}
ScoreConfidences == {<<>>, <<Pct(75)>>, <<One>>}
ScoreNames == {Pct(-5), Pct(50), Pct(100), Pct(105)}
ScoreDescs == {Pct(-20), Pct(10), Pct(19), Pct(20), Pct(100)}
ScoreOutcomes == {Pct(-10), Pct(5), Pct(14), Pct(15), Pct(100)}

ScoreCalls ==
    {[externals |-> <<[grade |-> g, credit_points |-> ca, retrieval_confidence |-> rc]>>,
      sheas |-> <<[credit_points |-> cb]>>,
      top_k |-> 1,
      prov |-> [method |-> "TF-IDF", llm |-> LlmOff,
                sim_matrix |-> <<<<d>>>>, name_sim |-> <<<<n>>>>,
                desc_sim |-> <<<<d>>>>, outcomes_sim |-> <<<<o>>>>]] :
        g \in ScoreGrades, ca \in ScoreExtCredits, cb \in ScoreSheaCredits,
        rc \in ScoreConfidences, n \in ScoreNames, d \in ScoreDescs, o \in ScoreOutcomes}

\* what the provider returns for one pair in the ranking calls: the ranking
\* similarity and the three component similarities
RankProfiles ==
    {[sim |-> sm, name |-> Pct(100), desc |-> c[1], outcomes |-> c[2]] :
        sm \in {Pct(30), Pct(60)},
        c \in {<<Pct(10), Pct(5)>>, <<Pct(40), Pct(30)>>, <<Pct(90), Pct(90)>>}}

MultiProfiles ==
    {[sim |-> Pct(30), name |-> Pct(100), desc |-> Pct(10), outcomes |-> Pct(5)],
     [sim |-> Pct(60), name |-> Pct(100), desc |-> Pct(10), outcomes |-> Pct(5)],
     [sim |-> Pct(30), name |-> Pct(100), desc |-> Pct(90), outcomes |-> Pct(90)]}

\* the four matrices of a matrix of pair profiles, computed by the TF-IDF
\* fallback, and the summarizer without API key
Provider(pm) ==
    [method |-> "TF-IDF", llm |-> LlmOff,
     sim_matrix |-> [e \in DOMAIN pm |-> [c \in DOMAIN pm[e] |-> pm[e][c].sim]],
     name_sim |-> [e \in DOMAIN pm |-> [c \in DOMAIN pm[e] |-> pm[e][c].name]],
     desc_sim |-> [e \in DOMAIN pm |-> [c \in DOMAIN pm[e] |-> pm[e][c].desc]],
     outcomes_sim |-> [e \in DOMAIN pm |-> [c \in DOMAIN pm[e] |-> pm[e][c].outcomes]]]

RankGrades == {"Fail", "Credit"}

\* 1 x m calls, m <= MaxPool, every positive top_k up to MaxTopK
RankCalls ==
    UNION {{[externals |-> <<[grade |-> g, credit_points |-> "10", retrieval_confidence |-> <<>>]>>,
             sheas |-> [c \in 1..m |-> [credit_points |-> "10"]],
             top_k |-> k,
             prov |-> Provider(<<pm>>)] :
                g \in RankGrades, k \in 1..MaxTopK, pm \in [1..m -> RankProfiles]} :
           m \in 1..MaxPool}

\* n x 2 calls, 2 <= n <= MaxExt
MultiCalls ==
    UNION {{[externals |-> [e \in 1..n |-> [grade |-> gs[e], credit_points |-> "10",
                                             retrieval_confidence |-> <<>>]],
             sheas |-> [c \in 1..2 |-> [credit_points |-> "10"]],
             top_k |-> k,
             prov |-> Provider(pm)] :
                gs \in [1..n -> RankGrades], k \in 1..2, pm \in [1..n -> [1..2 -> MultiProfiles]]} :
           n \in 2..MaxExt}

---------------------------------------------------------------------------
(* The component harness: each action is one call of a function of         *)
(* src/src/matching.py on inputs of the sets above.                        *)

NoCall == [fn |-> "none"]

\* the harness makes one call per run
Idle == gm_calls = <<>> /\ fn_call = NoCall

Init ==
    /\ external_units = <<>>
    /\ shea_units = <<>>
    /\ suggestions = <<>>
    /\ seq = [external_units |-> 0, shea_units |-> 0, suggestions |-> 0]
    /\ session = [current_external_ids |-> <<>>]
    /\ gm_calls = <<>>
    /\ fn_call = NoCall
    /\ decisions = <<>>

GmCall(args) ==
    [externals |-> args.externals, sheas |-> args.sheas, top_k |-> args.top_k, prov |-> args.prov,
     results |-> generate_matches(args.externals, args.sheas, args.top_k, args.prov)]

Call_generate_matches(Calls) ==
    /\ Idle
    /\ \E args \in Calls : gm_calls' = <<GmCall(args)>>
    /\ UNCHANGED <<external_units, shea_units, suggestions, seq, session, fn_call, decisions>>

Call_compat_score ==
    /\ Idle
    /\ \E a \in CreditInputs, b \in CreditInputs, tol \in {0, 2} :
          fn_call' = [fn |-> "_compat_score", a |-> a, b |-> b, tolerance |-> tol,
                      ret |-> _compat_score(a, b, tol)]
    /\ UNCHANGED <<external_units, shea_units, suggestions, seq, session, gm_calls, decisions>>

Call_grade_bonus ==
    /\ Idle
    /\ \E g \in GradeInputs :
          fn_call' = [fn |-> "_grade_bonus", grade |-> g, ret |-> _grade_bonus(g)]
    /\ UNCHANGED <<external_units, shea_units, suggestions, seq, session, gm_calls, decisions>>

Call_is_non_passing_grade ==
    /\ Idle
    /\ \E g \in GradeInputs :
          fn_call' = [fn |-> "_is_non_passing_grade", grade |-> g, ret |-> _is_non_passing_grade(g)]
    /\ UNCHANGED <<external_units, shea_units, suggestions, seq, session, gm_calls, decisions>>

ScoreNext == Call_generate_matches(ScoreCalls)
RankNext == Call_generate_matches(RankCalls)
MultiNext == Call_generate_matches(MultiCalls)

Next ==
    \/ ScoreNext
    \/ RankNext
    \/ MultiNext
    \/ Call_compat_score
    \/ Call_grade_bonus
    \/ Call_is_non_passing_grade

Spec == Init /\ [][Next]_vars

---------------------------------------------------------------------------
(* Properties of generate_matches *)

AllResults(P(_, _)) ==
    \A c \in 1..Len(gm_calls) : \A i \in 1..Len(gm_calls[c].results) :
        P(gm_calls[c], gm_calls[c].results[i])

SomeResult(P(_, _)) ==
    \E c \in 1..Len(gm_calls) : \E i \in 1..Len(gm_calls[c].results) :
        P(gm_calls[c], gm_calls[c].results[i])

\* the external unit and the catalog unit of a result
ExtOf(call, r) == call.externals[r.external_idx]
SheaOf(call, r) == call.sheas[r.shea_idx]

\* the grade after trimming and lower-casing
NormalizedGrade(grade) == Lower(Strip(OrEmpty(grade)))

NonPassing(call, r) == NormalizedGrade(ExtOf(call, r).grade) \in NonPassingTokens

LowEvidence(r) == r.outcomes_sim < Pct(15) /\ r.desc_sim < Pct(20)

\* the weighted sum plus bonuses before any clamp or cap, from the call's inputs,
\* with the credit component credit
RawScore(call, r, credit) ==
    LET e == r.external_idx
        c == r.shea_idx
    IN  Times(20, Clamp01(call.prov.name_sim[e][c]))
            + Times(35, Clamp01(call.prov.desc_sim[e][c]))
            + Times(35, Clamp01(call.prov.outcomes_sim[e][c]))
            + Times(10, credit)
            + _grade_bonus(ExtOf(call, r).grade)
            + Times(8, FloatOrZero(ExtOf(call, r).retrieval_confidence))

CompatOf(call, r) == _compat_score(ExtOf(call, r).credit_points, SheaOf(call, r).credit_points, 2)

\* C1 (flag dominance): every result of an external unit whose grade normalizes
\* to a non-passing token has score <= 0.20 and band "Flagged", whatever the
\* other components are; no result of a unit with another grade is "Flagged".
C1_FlagDominance ==
    LET P(call, r) ==
            IF NonPassing(call, r)
            THEN r.score <= Pct(20) /\ r.confidence_band = "Flagged"
            ELSE r.confidence_band # "Flagged"
    IN  AllResults(P)

\* a non-passing unit with full description and outcomes similarity, held at 0.20
C1_Witness ==
    LET P(call, r) ==
            /\ NonPassing(call, r)
            /\ r.desc_sim = One /\ r.outcomes_sim = One
            /\ RawScore(call, r, Clamp01(CompatOf(call, r))) > Pct(20)
            /\ r.score = Pct(20) /\ r.confidence_band = "Flagged"
    IN  SomeResult(P)

\* C2 (low-evidence cap): every result with outcomes < 0.15 and desc < 0.20 has
\* score <= 0.58, whatever name, credit, grade bonus and retrieval bonus are.
C2_LowEvidenceCap ==
    LET P(call, r) == LowEvidence(r) => r.score <= Pct(58)
    IN  AllResults(P)

\* a name-only pair whose weighted sum exceeds 0.58 and is held at 0.58
C2_Witness ==
    LET P(call, r) ==
            /\ LowEvidence(r)
            /\ r.name_sim = One
            /\ RawScore(call, r, Clamp01(CompatOf(call, r))) > Pct(58)
            /\ r.score = Pct(58)
    IN  SomeResult(P)

\* C3 (bounds): score, name_sim, desc_sim, outcomes_sim and credit_sim of every
\* result are within [0,1], also when the weighted sum plus bonuses leaves
\* [0,1] and when the provider returns values outside [0,1].
C3_Bounds ==
    LET In01(x) == 0 <= x /\ x <= One
        P(call, r) ==
            /\ In01(r.score) /\ In01(r.name_sim) /\ In01(r.desc_sim)
            /\ In01(r.outcomes_sim) /\ In01(r.credit_sim)
    IN  AllResults(P)

\* a provider value above 1 and a weighted sum above 1, emitted as 1
C3_Witness ==
    LET P(call, r) ==
            /\ call.prov.name_sim[r.external_idx][r.shea_idx] > One
            /\ RawScore(call, r, Clamp01(CompatOf(call, r))) > One
            /\ r.score = One /\ r.name_sim = One
    IN  SomeResult(P)

\* the score the formula gives with credit component credit: clamp01 of the raw
\* score, lowered to the cap of every guardrail that applies
FormulaScore(call, r, credit) ==
    LET base == Clamp01(RawScore(call, r, credit))
        capA == IF LowEvidence(r) THEN Min(base, Pct(58)) ELSE base
    IN  IF NonPassing(call, r) THEN Min(capA, Pct(20)) ELSE capA

\* C4 as stated (score formula): score = clamp01(0.20 name + 0.35 desc + 0.35
\* outcomes + 0.10 credit + grade_bonus + retrieval_bonus) with credit =
\* compat(external credit_points, catalog credit_points, 2), lowered to the cap
\* of a guardrail that applies.
C4_ScoreFormulaAsStated ==
    LET P(call, r) == r.score = FormulaScore(call, r, CompatOf(call, r))
    IN  AllResults(P)

\* C4 amended (score formula): as stated, with credit = clamp01(compat(...)):
\* compat exceeds 1 when both credit points are negative.
C4_ScoreFormula ==
    LET P(call, r) ==
            /\ r.score = FormulaScore(call, r, Clamp01(CompatOf(call, r)))
            /\ r.credit_sim = Clamp01(CompatOf(call, r))
    IN  AllResults(P)

\* no guardrail, a retrieval bonus, a partial credit compatibility and a score
\* strictly inside (0,1)
C4_Witness ==
    LET P(call, r) ==
            /\ ~LowEvidence(r) /\ ~NonPassing(call, r)
            /\ r.retrieval_bonus > 0
            /\ 0 < r.credit_sim /\ r.credit_sim < One
            /\ 0 < r.score /\ r.score < One
    IN  SomeResult(P)

\* C5 (confidence band): a result that is not flagged is "High" iff score >=
\* 0.70, "Medium" iff 0.45 <= score < 0.70, "Low" iff score < 0.45, on the
\* stored score.
C5_ConfidenceBand ==
    LET P(call, r) ==
            r.confidence_band # "Flagged" =>
                /\ r.confidence_band \in {"High", "Medium", "Low"}
                /\ r.confidence_band = "High" <=> r.score >= Pct(70)
                /\ r.confidence_band = "Medium" <=> (Pct(45) <= r.score /\ r.score < Pct(70))
                /\ r.confidence_band = "Low" <=> r.score < Pct(45)
    IN  AllResults(P)

\* a Medium result in the lower part of the band, capped by the low-evidence guardrail
C5_Witness ==
    LET P(call, r) ==
            /\ r.confidence_band = "Medium"
            /\ Pct(45) <= r.score /\ r.score < Pct(50)
    IN  SomeResult(P)

\* the tiers of the grade vocabulary, by normalized token
TierBonus(g) ==
    IF g \in {"hd", "high distinction"} THEN Pct(10)
    ELSE IF g \in {"distinction", "dn", "d"} THEN Pct(7)
    ELSE IF g \in {"credit", "cr", "c"} THEN Pct(4)
    ELSE 0

\* C6 (grade bonus): after trimming and lower-casing, grade_bonus is +0.10,
\* +0.07, +0.04 for the three passing tiers above a pass, 0 for a standard pass,
\* -0.10 exactly for the tokens the non-passing test accepts, 0 for empty,
\* missing and unrecognized tokens; every emitted grade_bonus is one of the
\* five values.
C6_GradeBonus ==
    LET Values == {-Pct(10), 0, Pct(4), Pct(7), Pct(10)}
        P(call, r) ==
            /\ r.grade_bonus \in Values
            /\ r.grade_bonus = -Pct(10) <=> NonPassing(call, r)
    IN  /\ fn_call.fn = "_grade_bonus" =>
            LET g == NormalizedGrade(fn_call.grade)
            IN  /\ fn_call.ret \in Values
                /\ fn_call.ret = -Pct(10) <=> _is_non_passing_grade(fn_call.grade)
                /\ g \in NonPassingTokens => fn_call.ret = -Pct(10)
                /\ g \notin NonPassingTokens => fn_call.ret = TierBonus(g)
        /\ fn_call.fn = "_is_non_passing_grade" =>
            (fn_call.ret <=> NormalizedGrade(fn_call.grade) \in NonPassingTokens)
        /\ AllResults(P)

\* " FAIL\t" is penalized: the token is recognized after trimming and lower-casing
C6_Witness ==
    /\ fn_call.fn = "_grade_bonus"
    /\ fn_call.grade = " FAIL\t"
    /\ fn_call.ret = -Pct(10)

\* C7 (numeric compatibility): compat(a, b, tol) is 0 when a side fails to parse
\* or parses to zero, else 1 when |a-b| <= tol, else max(0, 1 - |a-b|/max(a,b));
\* it is never negative; compat(10,10,2) = 1, compat(10,12,2) = 1,
\* compat(10,20,2) = 0.5, compat("",10,2) = 0, compat("abc",10,2) = 0.
C7_Compat ==
    fn_call.fn = "_compat_score" =>
        LET p == _safe_num(fn_call.a)
            q == _safe_num(fn_call.b)
            m == IF p >= q THEN p ELSE q
            ret == fn_call.ret
        IN  /\ ret >= 0
            /\ (p = 0 \/ q = 0) => ret = 0
            /\ (p # 0 /\ q # 0 /\ Abs(p - q) <= fn_call.tolerance) => ret = One
            /\ (p # 0 /\ q # 0 /\ Abs(p - q) > fn_call.tolerance) =>
                  \* ret = max(0, 1 - |p-q|/m), cross-multiplied by m
                  IF (m > 0 /\ Abs(p - q) >= m) THEN ret = 0
                  ELSE ret * m = One * (m - Abs(p - q))
            /\ (fn_call.a \in {PyNone, "", "abc", "10 credit points"}) => ret = 0
            /\ (fn_call.a = "10" /\ fn_call.b = "10" /\ fn_call.tolerance = 2) => ret = One
            /\ (fn_call.a = "10" /\ fn_call.b = "12" /\ fn_call.tolerance = 2) => ret = One
            /\ (fn_call.a = "10" /\ fn_call.b = "20" /\ fn_call.tolerance = 2) => ret = Pct(50)
            /\ (fn_call.a = "" /\ fn_call.b = "10" /\ fn_call.tolerance = 2) => ret = 0
            /\ (fn_call.a = "abc" /\ fn_call.b = "10" /\ fn_call.tolerance = 2) => ret = 0

\* compat(10, 12, 2): different numbers within the tolerance
C7_Witness ==
    /\ fn_call.fn = "_compat_score"
    /\ fn_call.a = "10" /\ fn_call.b = "12" /\ fn_call.tolerance = 2
    /\ fn_call.ret = One

\* the full-text similarity the ranking of a result's pair used
RankSim(call, r) == call.prov.sim_matrix[r.external_idx][r.shea_idx]

\* pairs of positions i < j of results of one external unit, in calls with top_k >= 2
AllResultPairs(P(_, _, _)) ==
    \A c \in 1..Len(gm_calls) :
        gm_calls[c].top_k >= 2 =>
            \A i \in 1..Len(gm_calls[c].results), j \in 1..Len(gm_calls[c].results) :
                (i < j /\ gm_calls[c].results[i].external_idx = gm_calls[c].results[j].external_idx)
                    => P(gm_calls[c], gm_calls[c].results[i], gm_calls[c].results[j])

\* C9 as stated (result ordering): the results of one external unit appear in
\* descending score order and results with equal score appear in pool order
\* (lower pool index first).
C9_OrderingAsStated ==
    LET P(call, r1, r2) ==
            /\ r1.score >= r2.score
            /\ r1.score = r2.score => r1.shea_idx < r2.shea_idx
    IN  AllResultPairs(P)

\* C9 amended (result ordering): the results of one external unit appear in
\* descending score order and results with equal score appear in the order of
\* the ranking that selected them: higher full-text similarity first, lower
\* pool index first among equal full-text similarities.
C9_Ordering ==
    LET P(call, r1, r2) ==
            /\ r1.score >= r2.score
            /\ r1.score = r2.score =>
                  \/ RankSim(call, r1) > RankSim(call, r2)
                  \/ RankSim(call, r1) = RankSim(call, r2) /\ r1.shea_idx < r2.shea_idx
    IN  AllResultPairs(P)

\* a call on two external units whose list was reordered by the final sort, with
\* two results of one unit tied at a guardrail cap, the higher pool index first
C9_Witness ==
    \E c \in 1..Len(gm_calls) :
        LET call == gm_calls[c]
            rs == call.results
        IN  /\ call.top_k >= 2
            /\ \E i \in 1..Len(rs), j \in 1..Len(rs) :
                  /\ i < j
                  /\ rs[i].external_idx = rs[j].external_idx
                  /\ rs[i].score = rs[j].score
                  /\ rs[i].score \in {Pct(20), Pct(58)}
                  /\ rs[i].shea_idx > rs[j].shea_idx
            /\ \E i \in 1..Len(rs), j \in 1..Len(rs) :
                  i < j /\ rs[i].external_idx > rs[j].external_idx

\* the pool indices emitted for external unit e
EmittedFor(call, e) ==
    {call.results[i].shea_idx : i \in {k \in 1..Len(call.results) : call.results[k].external_idx = e}}

\* the number of results emitted for external unit e
CountFor(call, e) ==
    Cardinality({k \in 1..Len(call.results) : call.results[k].external_idx = e})

\* C10 (top-K selection): for every external unit and positive top_k, also
\* larger than the pool, exactly min(top_k, |pool|) results are emitted, for
\* pairwise distinct candidates, and every emitted candidate has full-text
\* similarity >= that of every candidate not emitted, ties going to the lower
\* pool index.
C10_TopK ==
    \A c \in 1..Len(gm_calls) :
        LET call == gm_calls[c]
            pool == 1..Len(call.sheas)
        IN  \A e \in 1..Len(call.externals) :
                /\ CountFor(call, e) = (IF call.top_k <= Len(call.sheas) THEN call.top_k ELSE Len(call.sheas))
                /\ Cardinality(EmittedFor(call, e)) = CountFor(call, e)
                /\ EmittedFor(call, e) \subseteq pool
                /\ \A j \in EmittedFor(call, e), i \in pool \ EmittedFor(call, e) :
                      \/ call.prov.sim_matrix[e][j] > call.prov.sim_matrix[e][i]
                      \/ call.prov.sim_matrix[e][j] = call.prov.sim_matrix[e][i] /\ j < i

\* a pool of three with top_k = 2 where all three candidates tie in full-text
\* similarity: candidates 1 and 2 are emitted, candidate 3 is not
C10_Witness ==
    \E c \in 1..Len(gm_calls) :
        LET call == gm_calls[c]
            row == call.prov.sim_matrix[1]
        IN  /\ Len(call.sheas) = 3 /\ call.top_k = 2
            /\ row[2] = row[3] /\ row[1] = row[2]
            /\ EmittedFor(call, 1) = {1, 2}

\* top_k larger than the pool: the whole pool is emitted
C10_WitnessWholePool ==
    \E c \in 1..Len(gm_calls) :
        /\ gm_calls[c].top_k > Len(gm_calls[c].sheas)
        /\ Len(gm_calls[c].sheas) >= 2
        /\ EmittedFor(gm_calls[c], 1) = 1..Len(gm_calls[c].sheas)

---------------------------------------------------------------------------
(* The workflow (src/app.py): the handlers of the Streamlit pages over the *)
(* SQLite tables of src/src/db.py.  A handler runs to completion in one    *)
(* script run, so each handler is one action.                              *)
(*                                                                         *)
(* Free-text columns (title, description, learning_outcomes, topics) hold  *)
(* run-length encoded strings: T(s, n) is the string s followed by n       *)
(* filler characters ".", so that page-sized texts stay small.  NoText is  *)
(* None/NULL.                                                              *)

T(s, n) == <<s, n>>
NoText == <<>>

\* len(t)
TLen(t) == Len(t[1]) + t[2]

\* t or ""
TOrEmpty(t) == IF t = NoText THEN T("", 0) ELSE t

RECURSIVE JoinRuns(_, _, _)
\* the maximal filler-free substrings of " ".join(parts[i:]) after the pending
\* filler-free prefix cur
JoinRuns(parts, i, cur) ==
    IF i > Len(parts) THEN {cur}
    ELSE LET s == cur \o (IF i > 1 THEN " " ELSE "") \o parts[i][1]
         IN  IF parts[i][2] > 0 THEN {s} \cup JoinRuns(parts, i + 1, "")
             ELSE JoinRuns(parts, i + 1, s)

RECURSIVE Reverse(_)
Reverse(s) == IF Len(s) = 0 THEN <<>> ELSE Reverse(Tail(s)) \o <<Head(s)>>

\* what parse_external_units_from_text returns for a transcript line
ParsedUnit(code, title, grade) ==
    [unit_code |-> code,
     title |-> T(title, 0),
     description |-> T("Extracted from transcript line: " \o code \o " - " \o title \o " - " \o grade, 0),
     grade |-> grade,
     aqf_level |-> ""]

\* the unit lists the transcripts of the model parse to (distinct unit codes);
\* the unit of the last one has no grade
Transcripts ==
    {<<ParsedUnit("COSC101", "Introduction to Programming", "Credit")>>,
     <<ParsedUnit("COSC202", "Data Structures", "Fail"),
       ParsedUnit("MITS500", "Master Research Project", "High Distinction")>>,
     <<ParsedUnit("COSC303", "Operating Systems", "")>>}

\* the row insert_external_units stores for a parsed unit: the keys the parser
\* does not set are NULL
ExternalRow(id, u) ==
    [id |-> id,
     unit_code |-> u.unit_code,
     title |-> u.title,
     description |-> u.description,
     grade |-> u.grade,
     learning_outcomes |-> NoText,
     topics |-> NoText,
     credit_points |-> PyNone,
     aqf_level |-> u.aqf_level,
     source_url |-> PyNone,
     retrieval_mode |-> PyNone,
     retrieval_confidence |-> <<>>]

RECURSIVE insert_external_units(_, _)
\* insert_external_units: the rows appended, with their AUTOINCREMENT ids
insert_external_units(units, last_id) ==
    IF Len(units) = 0 THEN <<>>
    ELSE <<ExternalRow(last_id + 1, Head(units))>> \o insert_external_units(Tail(units), last_id + 1)

\* fetch_external_units: ORDER BY id DESC
fetch_external_units == Reverse(external_units)

\* the units the CPL Suggestions page works on: all rows when the box "use all
\* historical external units" is ticked or no current ids are known, else the
\* rows of the current transcript
External(use_all) ==
    IF use_all \/ Len(session.current_external_ids) = 0
    THEN fetch_external_units
    ELSE LET idset == {session.current_external_ids[i] : i \in 1..Len(session.current_external_ids)}
             Current(u) == u.id \in idset
         IN  SelectSeq(fetch_external_units, Current)

RECURSIVE Ids(_)
Ids(rows) == IF Len(rows) = 0 THEN <<>> ELSE <<Head(rows).id>> \o Ids(Tail(rows))

\* "Parse and save external units", for the transcripts of a set and ids up
\* to max_id
ParseAndSaveFrom(TranscriptSet, max_id) ==
    \E units \in TranscriptSet, replace_existing \in BOOLEAN :
        LET missing_grade == {i \in 1..Len(units) : Strip(OrEmpty(units[i].grade)) = ""}
            rows == insert_external_units(units, seq.external_units)
        IN  /\ missing_grade = {}
            /\ seq.external_units + Len(units) <= max_id
            /\ suggestions' = IF replace_existing THEN <<>> ELSE suggestions
            /\ external_units' = (IF replace_existing THEN <<>> ELSE external_units) \o rows
            /\ seq' = [seq EXCEPT !.external_units = @ + Len(units)]
            /\ session' = [session EXCEPT !.current_external_ids = Ids(rows)]
            /\ gm_calls' = <<>>
            /\ UNCHANGED <<shea_units, fn_call, decisions>>

ParseAndSave == ParseAndSaveFrom(Transcripts, MaxRowId)

\* the catalogs load_shea_units_from_excel can return: credit_points is always
\* "", course is "BIT" until the MIT marker row and "MIT" after it
SheaUnit(code, title, course) ==
    [unit_code |-> code, title |-> T(title, 0), course |-> course,
     aqf_level |-> IF course = "MIT" THEN "9" ELSE "7", credit_points |-> ""]

Catalogs ==
    {<<SheaUnit("ITOP502", "Programming Foundations", "BIT"),
       SheaUnit("ITPM604", "AI-Assisted Project Management", "MIT")>>,
     <<SheaUnit("ITDS503", "Data Structures and Algorithms", "BIT"),
       SheaUnit("ITOP502", "Programming Foundations", "BIT")>>}

\* the unit codes of the catalogs in ascending order
CatalogCodes == <<"ITDS503", "ITOP502", "ITPM604">>

CodeRank(code) == CHOOSE i \in 1..Len(CatalogCodes) : CatalogCodes[i] = code

\* fetch_shea_units: ORDER BY unit_code
fetch_shea_units ==
    LET sorted == SortDescStable([i \in 1..Len(shea_units) |->
                                    <<-CodeRank(shea_units[i].unit_code), shea_units[i]>>])
    IN  [i \in 1..Len(sorted) |-> sorted[i][2]]

RECURSIVE upsert_shea_units(_, _)
\* upsert_shea_units into the cleared table: the rows with their AUTOINCREMENT ids
upsert_shea_units(units, last_id) ==
    IF Len(units) = 0 THEN <<>>
    ELSE <<[id |-> last_id + 1] @@ Head(units)>> \o upsert_shea_units(Tail(units), last_id + 1)

\* "Load SHEA units from local Excel": clear_shea_units, upsert_shea_units,
\* for the catalogs of a set and ids up to max_id
LoadSheaUnitsFrom(CatalogSet, max_id) ==
    \E local_units \in CatalogSet :
        /\ seq.shea_units + Len(local_units) <= max_id
        /\ shea_units' = upsert_shea_units(local_units, seq.shea_units)
        /\ seq' = [seq EXCEPT !.shea_units = @ + Len(local_units)]
        /\ gm_calls' = <<>>
        /\ UNCHANGED <<external_units, suggestions, session, fn_call, decisions>>

LoadSheaUnits == LoadSheaUnitsFrom(Catalogs, MaxSheaId)

---------------------------------------------------------------------------
(* Enrichment (src/src/retrieval_agent.py and "Run MCP check")             *)

\* the page content a retrieval can extract: a short overview with a
\* credit-point line; every section long, with credit points and AQF level
RetrievedFields ==
    {[description |-> T("Short overview of the unit", 0), learning_outcomes |-> T("", 0),
      topics |-> T("", 0), credit_points |-> "10 credit points", aqf_level |-> ""],
     [description |-> T("Postgraduate overview", 480), learning_outcomes |-> T("Outcomes", 113),
      topics |-> T("Topics", 75), credit_points |-> "12 cp", aqf_level |-> "9"]}

MutScoreQualityPercent(fields) ==
    LET score == (IF TLen(fields.description) > 500 THEN 45 ELSE 0)
                    + (IF TLen(fields.learning_outcomes) > 120 THEN 30 ELSE 0)
                    + (IF TLen(fields.topics) > 80 THEN 15 ELSE 0)
                    + (IF fields.credit_points # "" THEN 5 ELSE 0)
                    + (IF fields.aqf_level # "" THEN 5 ELSE 0)
    IN  Min(score * One, 100 * One)

_score_quality(fields) ==
    LET score == (IF TLen(fields.description) > 500 THEN Pct(45) ELSE 0)
                    + (IF TLen(fields.learning_outcomes) > 120 THEN Pct(30) ELSE 0)
                    + (IF TLen(fields.topics) > 80 THEN Pct(15) ELSE 0)
                    + (IF fields.credit_points # "" THEN Pct(5) ELSE 0)
                    + (IF fields.aqf_level # "" THEN Pct(5) ELSE 0)
    IN  Min(score, One)

\* the RetrievalResult of a retrieval that extracted fields from url
Retrieved(url, mode, fields) ==
    [source_url |-> url, retrieval_mode |-> mode,
     retrieval_confidence |-> _score_quality(fields)] @@ fields

\* the RetrievalResult of a failed fetch and of a unit without candidate URL
RetrievalFailed(url, mode) ==
    [source_url |-> url, retrieval_mode |-> mode, retrieval_confidence |-> 0,
     description |-> T("", 0), learning_outcomes |-> T("", 0), topics |-> T("", 0),
     credit_points |-> "", aqf_level |-> ""]

\* what enrich_external_unit returns for a unit: the best retrieval of a
\* candidate URL (fields = <<f>>), or the result without candidate URL (<<>>)
EnrichResult(code, fields) ==
    IF fields = <<>> THEN RetrievalFailed("", "none")
    ELSE Retrieved("https://uni.example/units/" \o code, "playwright_dom", fields[1])

EnrichOutcomes == {<<>>} \cup {<<f>> : f \in RetrievedFields}

\* the payload "Run MCP check" harvests from a result, <<>> when the result is dropped
HarvestPayload(title, res) ==
    IF res.retrieval_confidence > 0
        /\ (TLen(res.description) > 0 \/ TLen(res.learning_outcomes) > 0 \/ TLen(res.topics) > 0)
    THEN <<[title |-> title,
            description |-> res.description,
            learning_outcomes |-> res.learning_outcomes,
            topics |-> res.topics,
            source_url |-> res.source_url,
            retrieval_mode |-> res.retrieval_mode,
            retrieval_confidence |-> res.retrieval_confidence]>>
    ELSE <<>>

RECURSIVE Harvested(_, _, _, _)
\* harvested.get(code) after the first n units of the loop: <<payload>>, or
\* <<>> for a code without payload
Harvested(external, outcomes, n, code) ==
    IF n = 0 THEN <<>>
    ELSE LET unit == external[n]
             ucode == Upper(Str(OrEmpty(unit.unit_code)))
             payload == HarvestPayload(TOrEmpty(unit.title), EnrichResult(ucode, outcomes[n]))
         IN  IF ucode # "" /\ ucode = code /\ payload # <<>> THEN payload
             ELSE Harvested(external, outcomes, n - 1, code)

\* COALESCE(new, old) for a column holding a string
Coalesce(new, old) == IF new = PyNone THEN old ELSE new

\* COALESCE(new, old) for a column holding a free text
TCoalesce(new, old) == IF new = NoText THEN old ELSE new

\* x or default
OrDefault(x, default) == IF x = PyNone \/ x = "" THEN default ELSE x

\* update_external_unit_enrichment with the payload "Run MCP check" builds:
\* credit_points and aqf_level are not passed and keep their values
update_external_unit_enrichment(row, payload) ==
    [row EXCEPT
        !.description = TCoalesce(payload.description, @),
        !.learning_outcomes = TCoalesce(payload.learning_outcomes, @),
        !.topics = TCoalesce(payload.topics, @),
        !.source_url = Coalesce(payload.source_url, @),
        !.retrieval_mode = Coalesce(OrDefault(payload.retrieval_mode, "mcp_user_agent"), @),
        !.retrieval_confidence =
            <<IF payload.retrieval_confidence = 0 THEN Pct(75) ELSE payload.retrieval_confidence>>]

RECURSIVE Enriched(_, _, _)
\* the table after the update loop over the units of external
Enriched(rows, external, outcomes) ==
    IF Len(rows) = 0 THEN <<>>
    ELSE LET row == Head(rows)
             payload == IF \E i \in 1..Len(external) : external[i].id = row.id
                        THEN Harvested(external, outcomes, Len(external),
                                       Upper(Str(OrEmpty(row.unit_code))))
                        ELSE <<>>
         IN  <<IF payload # <<>> THEN update_external_unit_enrichment(row, payload[1]) ELSE row>>
                 \o Enriched(Tail(rows), external, outcomes)

\* "Run MCP check: crawl external course website"
RunMcpCheckFrom(UseAll, OutcomeSet) ==
    \E use_all \in UseAll :
        \E external \in {External(use_all)} :
            /\ Len(external) > 0
            /\ \E outcomes \in [1..Len(external) -> OutcomeSet] :
                  external_units' = Enriched(external_units, external, outcomes)
            /\ gm_calls' = <<>>
            /\ UNCHANGED <<shea_units, suggestions, seq, session, fn_call, decisions>>

RunMcpCheck == RunMcpCheckFrom(BOOLEAN, EnrichOutcomes)

---------------------------------------------------------------------------
(* "Generate suggestions" (src/app.py)                                     *)

\* any(k in context_text for k in keys), on the filler-free runs of the text
AnyIn(keys, runs) == \E k \in keys : \E r \in runs : Contains(r, k)

MutGateKeywordsFirst(ext) ==
    LET aqf_raw == Strip(Str(OrEmpty(ext.aqf_level)))
        aqf_num == IF aqf_raw = "" THEN 0 ELSE _safe_num(aqf_raw)
        runs == JoinRuns(<<TOrEmpty(ext.title), TOrEmpty(ext.description),
                           TOrEmpty(ext.learning_outcomes), TOrEmpty(ext.topics)>>, 1, "")
        context_text == {Lower(r) : r \in runs}
    IN  IF AnyIn({"master", "postgraduate", "graduate diploma"}, context_text) THEN <<"MIT", "keyword">>
        ELSE IF AnyIn({"bachelor", "undergraduate"}, context_text) THEN <<"BIT", "keyword">>
        ELSE IF aqf_num >= 9 THEN <<"MIT", "aqf">>
        ELSE IF aqf_num > 0 THEN <<"BIT", "aqf">>
        ELSE <<"", "none">>

\* the level gate of one external unit: <<target_course, gate_source>>, the
\* target "" standing for None
Gate(ext) ==
    LET aqf_raw == Strip(Str(OrEmpty(ext.aqf_level)))
        aqf_num == IF aqf_raw = "" THEN 0 ELSE _safe_num(aqf_raw)
        runs == JoinRuns(<<TOrEmpty(ext.title), TOrEmpty(ext.description),
                           TOrEmpty(ext.learning_outcomes), TOrEmpty(ext.topics)>>, 1, "")
        context_text == {Lower(r) : r \in runs}
    IN  IF aqf_num >= 9 THEN <<"MIT", "aqf">>
        ELSE IF aqf_num > 0 THEN <<"BIT", "aqf">>
        ELSE IF AnyIn({"master", "postgraduate", "graduate diploma"}, context_text) THEN <<"MIT", "keyword">>
        ELSE IF AnyIn({"bachelor", "undergraduate"}, context_text) THEN <<"BIT", "keyword">>
        ELSE <<"", "none">>

MutPoolNoFilter(shea, target_course) == shea

MutPoolNoFallback(shea, target_course) ==
    LET InCourse(su) == Upper(Str(OrEmpty(su.course))) = target_course
    IN  IF target_course # "" THEN SelectSeq(shea, InCourse) ELSE shea

\* the candidate pool of a unit whose gate target is target_course
SheaPool(shea, target_course) ==
    LET InCourse(su) == Upper(Str(OrEmpty(su.course))) = target_course
        filtered == SelectSeq(shea, InCourse)
    IN  IF target_course # "" /\ Len(filtered) > 0 THEN filtered ELSE shea

\* what the similarity provider returns in the workflow: the profile of the
\* pair of a unit and the candidate at each position of its pool
SimilarityTables ==
    {<<[sim |-> Pct(30), name |-> Pct(100), desc |-> Pct(10), outcomes |-> Pct(5)],
       [sim |-> Pct(30), name |-> Pct(100), desc |-> Pct(10), outcomes |-> Pct(5)]>>,
     <<[sim |-> Pct(30), name |-> Pct(100), desc |-> Pct(10), outcomes |-> Pct(5)],
       [sim |-> Pct(60), name |-> Pct(80), desc |-> Pct(90), outcomes |-> Pct(90)]>>}

\* the values of the slider "Suggestions per external unit"
TopKChoices == 1..3

\* the generate_matches call for the unit ext: generate_matches([ext], shea_pool, top_k)
UnitCall(ext, pool, top_k, table) ==
    GmCall([externals |-> <<ext>>, sheas |-> pool, top_k |-> top_k,
            prov |-> Provider(<<[c \in 1..Len(pool) |-> table[c]]>>)])

MutGatePrefixAlwaysTagged(gate) == "Level gate=" \o gate[1] \o " via " \o gate[2] \o ". "

\* the text the handler puts before the explanation of a result
GatePrefix(gate) ==
    IF gate[1] # "" THEN "Level gate=" \o gate[1] \o " via " \o gate[2] \o ". "
    ELSE "Level gate=not-detected. "

RECURSIVE UnitRows(_, _, _)
\* the rows appended for the results of one unit's call, from result i on
UnitRows(call, gate, i) ==
    IF i > Len(call.results) THEN <<>>
    ELSE LET r == call.results[i]
         IN  <<[external_unit_id |-> call.externals[1].id,
                shea_unit_id |-> call.sheas[r.shea_idx].id,
                score |-> r.score,
                confidence_band |-> r.confidence_band,
                explanation |-> <<GatePrefix(gate)>> \o r.explanation,
                name_sim |-> r.name_sim,
                desc_sim |-> r.desc_sim,
                outcomes_sim |-> r.outcomes_sim,
                credit_sim |-> r.credit_sim,
                grade_bonus |-> r.grade_bonus,
                retrieval_bonus |-> r.retrieval_bonus]>> \o UnitRows(call, gate, i + 1)

RECURSIVE Gates(_)
\* the gate of every unit of external
Gates(external) ==
    IF Len(external) = 0 THEN <<>> ELSE <<Gate(Head(external))>> \o Gates(Tail(external))

RECURSIVE Pools(_, _)
\* the gated pool of every unit, from its gate
Pools(gates, shea) ==
    IF Len(gates) = 0 THEN <<>>
    ELSE <<SheaPool(shea, Head(gates)[1])>> \o Pools(Tail(gates), shea)

RECURSIVE Calls(_, _, _, _, _)
\* the generate_matches calls of the loop, from unit i on
Calls(external, pools, top_k, tables, i) ==
    IF i > Len(external) THEN <<>>
    ELSE <<UnitCall(external[i], pools[i], top_k, tables[i])>>
            \o Calls(external, pools, top_k, tables, i + 1)

RECURSIVE Rows(_, _)
\* the rows list after the loop
Rows(calls, gates) ==
    IF Len(calls) = 0 THEN <<>>
    ELSE UnitRows(Head(calls), Head(gates), 1) \o Rows(Tail(calls), Tail(gates))

RECURSIVE MutInsertReusesIds(_, _)
MutInsertReusesIds(rows, last_id) ==
    IF Len(rows) = 0 THEN <<>>
    ELSE MutInsertReusesIds(SubSeq(rows, 1, Len(rows) - 1), last_id)
            \o <<[id |-> Len(rows)] @@ rows[Len(rows)]>>

RECURSIVE insert_suggestions(_, _)
\* insert_suggestions: the rows with their AUTOINCREMENT ids
insert_suggestions(rows, last_id) ==
    IF Len(rows) = 0 THEN <<>>
    ELSE <<[id |-> last_id + 1] @@ Head(rows)>> \o insert_suggestions(Tail(rows), last_id + 1)

\* "Generate suggestions": gate and score every unit, then clear_suggestions
\* and insert_suggestions (\E x \in {e} names the value e)
GenerateSuggestionsFrom(UseAll, TopKs, Tables) ==
    \E use_all \in UseAll, top_k \in TopKs :
        \E external \in {External(use_all)}, shea \in {fetch_shea_units} :
            /\ Len(external) > 0
            /\ \A i \in 1..Len(shea) : Strip(OrEmpty(shea[i].course)) # ""
            /\ \E gates \in {Gates(external)} :
               \E pools \in {Pools(gates, shea)} :
               \E tables \in [1..Len(external) -> Tables] :
               \E calls \in {Calls(external, pools, top_k, tables, 1)} :
               \E rows \in {Rows(calls, gates)} :
                  /\ seq.suggestions + Len(rows) <= MaxSuggestionId
                  /\ gm_calls' = calls
                  /\ suggestions' = insert_suggestions(rows, seq.suggestions)
                  /\ seq' = [seq EXCEPT !.suggestions = @ + Len(rows)]
            /\ UNCHANGED <<external_units, shea_units, session, fn_call, decisions>>

GenerateSuggestions == GenerateSuggestionsFrom(BOOLEAN, TopKChoices, SimilarityTables)

WorkflowNext ==
    \/ LoadSheaUnits
    \/ ParseAndSave
    \/ RunMcpCheck
    \/ GenerateSuggestions

SpecWorkflow == Init /\ [][WorkflowNext]_vars

---------------------------------------------------------------------------
(* Properties of the workflow                                              *)

\* the retrieval_confidence column holds NULL or a value in (0, 1]
StoredConfidenceInRange(row) ==
    row.retrieval_confidence = <<>>
        \/ (row.retrieval_confidence[1] > 0 /\ row.retrieval_confidence[1] <= One)

BonusOfConfidence(call, r) ==
    /\ r.retrieval_bonus = Times(8, FloatOrZero(ExtOf(call, r).retrieval_confidence))
    /\ r.retrieval_bonus >= 0
    /\ r.retrieval_bonus <= Pct(8)

\* C8 (retrieval bonus bound): every external unit the workflow stores has no
\* retrieval_confidence or one in (0, 1]; every result emitted for such a unit
\* has retrieval_bonus = 0.08 * retrieval_confidence (0 when absent), within
\* [0, 0.08], and so has every stored suggestion
C8_RetrievalBonus ==
    /\ \A i \in 1..Len(external_units) : StoredConfidenceInRange(external_units[i])
    /\ AllResults(BonusOfConfidence)
    /\ \A i \in 1..Len(suggestions) :
          suggestions[i].retrieval_bonus >= 0 /\ suggestions[i].retrieval_bonus <= Pct(8)

FullConfidenceBonus(call, r) ==
    ExtOf(call, r).retrieval_confidence = <<One>> /\ r.retrieval_bonus = Pct(8)

PartialConfidenceBonus(call, r) ==
    ExtOf(call, r).retrieval_confidence = <<Pct(5)>> /\ r.retrieval_bonus = Times(8, Pct(5))

NoConfidenceBonus(call, r) ==
    ExtOf(call, r).retrieval_confidence = <<>> /\ r.retrieval_bonus = 0

\* one generation over two units, one enriched with confidence 1.0 (bonus
\* 0.08, stored with the suggestion) and one never enriched (bonus 0)
C8_Witness ==
    /\ SomeResult(FullConfidenceBonus)
    /\ SomeResult(NoConfidenceBonus)
    /\ \E i \in 1..Len(suggestions) : suggestions[i].retrieval_bonus = Pct(8)

\* a generation for a unit enriched with confidence 0.05 (bonus 0.004)
C8_WitnessPartial == SomeResult(PartialConfidenceBonus)

---------------------------------------------------------------------------
(* The handler harness: each action is one evaluation of a step of a       *)
(* handler of src/app.py on inputs of the sets below.                      *)

\* aqf_level values with the number float() reads from them (<<>> when
\* float() raises or the value is empty)
GateLevels ==
    {<<PyNone, <<>> >>, <<"", <<>> >>, <<"abc", <<>> >>, <<"AQF 9", <<>> >>,
     <<"0", <<0>> >>, <<"-3", <<-3>> >>, <<"1", <<1>> >>, <<"7", <<7>> >>,
     <<"8", <<8>> >>, <<"9", <<9>> >>, <<" 10 ", <<10>> >>}

\* title, description, learning_outcomes and topics of a unit, with the kind
\* of qualification cue the lower-cased joined text contains: "pg"
\* (postgraduate cue present), "ug" (only undergraduate cues), "none"
GateTexts ==
    {<<T("Data Structures", 0), T("Lists, trees and graphs", 0), NoText, NoText, "none">>,
     <<T("", 0), NoText, NoText, NoText, "none">>,
     <<T("Research Project", 0), T("Capstone of the Master of IT", 0), NoText, NoText, "pg">>,
     <<T("POSTGRADUATE Research Methods", 0), NoText, NoText, NoText, "pg">>,
     <<T("Professional Practice", 0), T("Overview", 520), T("Outcomes", 130),
       T("Part of the Graduate Diploma", 0), "pg">>,
     <<T("Graduate", 0), T("Diploma entry unit", 0), NoText, NoText, "pg">>,
     <<T("Graduate", 3), T("Diploma entry unit", 0), NoText, NoText, "none">>,
     <<T("Mathematics", 0), T("Core unit of the Bachelor of Science", 0), NoText, NoText, "ug">>,
     <<T("Programming", 0), T("Overview", 520), T("Undergraduate outcomes", 0), NoText, "ug">>,
     <<T("Undergraduate Diploma Project", 0), NoText, NoText, NoText, "pg">>,
     <<T("Bachelor elective", 0), T("Also offered in the master program", 0), NoText, NoText, "pg">>,
     <<T("Mastering Spreadsheets", 0), NoText, NoText, NoText, "pg">>}

Call_gate ==
    /\ Idle
    /\ \E lv \in GateLevels, tx \in GateTexts :
          LET ext == [aqf_level |-> lv[1], title |-> tx[1], description |-> tx[2],
                      learning_outcomes |-> tx[3], topics |-> tx[4]]
          IN  fn_call' = [fn |-> "gate", ext |-> ext, level |-> lv[2], cue |-> tx[5],
                          ret |-> Gate(ext)]
    /\ UNCHANGED <<external_units, shea_units, suggestions, seq, session, gm_calls, decisions>>

HandlerNext ==
    \/ Call_gate

SpecHandlers == Init /\ [][HandlerNext]_vars

\* C12 (gate decision): the gate of a unit whose level reads as a number >= 9
\* is MIT via "aqf"; as a number in (0, 9), BIT via "aqf"; otherwise (empty,
\* unparseable, zero or negative) MIT via "keyword" when the text has a
\* postgraduate cue, else BIT via "keyword" when it has an undergraduate cue,
\* else no target and source "none"
C12_GateDecision ==
    fn_call.fn = "gate" =>
        LET level == fn_call.level
        IN  fn_call.ret =
                IF level # <<>> /\ level[1] >= 9 THEN <<"MIT", "aqf">>
                ELSE IF level # <<>> /\ level[1] > 0 THEN <<"BIT", "aqf">>
                ELSE IF fn_call.cue = "pg" THEN <<"MIT", "keyword">>
                ELSE IF fn_call.cue = "ug" THEN <<"BIT", "keyword">>
                ELSE <<"", "none">>

\* a level of 7 with a postgraduate cue in the text: BIT by the level
C12_Witness ==
    /\ fn_call.fn = "gate"
    /\ fn_call.level = <<7>>
    /\ fn_call.cue = "pg"
    /\ fn_call.ret = <<"BIT", "aqf">>

\* an unparseable level and both kinds of cue: MIT by keyword
C12_WitnessKeyword ==
    /\ fn_call.fn = "gate"
    /\ fn_call.ext.aqf_level = "AQF 9"
    /\ fn_call.ext.title = T("Bachelor elective", 0)
    /\ fn_call.ret = <<"MIT", "keyword">>

\* the stored suggestions of the external unit with the given id
RowsOf(ext_id) == {i \in 1..Len(suggestions) : suggestions[i].external_unit_id = ext_id}

\* the catalog units of a target group
InGroup(catalog, target) ==
    {i \in 1..Len(catalog) : Upper(Str(OrEmpty(catalog[i].course))) = target}

\* C11 (gate never starves): after a generation run, a unit whose gate found a
\* target group that no catalog unit belongs to was scored against the full
\* catalog; with a non-empty catalog every unit of the run has at least one
\* result and one stored suggestion, and the stored suggestions of a unit with
\* a target start with "Level gate=<target> via <source>. "
C11_GateNeverStarves ==
    \A c \in 1..Len(gm_calls) :
        LET call == gm_calls[c]
            ext == call.externals[1]
            gate == Gate(ext)
            catalog == fetch_shea_units
        IN  /\ (gate[1] # "" /\ InGroup(catalog, gate[1]) = {}) => call.sheas = catalog
            /\ (Len(catalog) > 0 /\ call.top_k >= 1) =>
                  /\ Len(call.results) >= 1
                  /\ RowsOf(ext.id) # {}
            /\ gate[1] # "" =>
                  \A i \in RowsOf(ext.id) :
                      suggestions[i].explanation[1]
                          = "Level gate=" \o gate[1] \o " via " \o gate[2] \o ". "

\* the unit "Master Research Project" generated against a catalog of BIT units
\* only: both catalog units are in its pool and its suggestion is tagged
C11_Witness ==
    \E c \in 1..Len(gm_calls) :
        LET call == gm_calls[c]
            ext == call.externals[1]
        IN  /\ ext.unit_code = "MITS500"
            /\ Len(shea_units) = 2
            /\ \A i \in 1..Len(shea_units) : shea_units[i].course = "BIT"
            /\ Len(call.sheas) = 2
            /\ \E i \in RowsOf(ext.id) :
                  suggestions[i].explanation[1] = "Level gate=MIT via keyword. "

\* C13 (ungated units): after a generation run, a unit without gate target
\* was scored against the whole catalog and each of its stored suggestions
\* starts with "Level gate=not-detected. "; the stored suggestions of a unit
\* with a target do not
C13_Ungated ==
    \A c \in 1..Len(gm_calls) :
        LET call == gm_calls[c]
            ext == call.externals[1]
            gate == Gate(ext)
        IN  /\ gate[1] = "" =>
                  /\ call.sheas = fetch_shea_units
                  /\ \A i \in RowsOf(ext.id) :
                        suggestions[i].explanation[1] = "Level gate=not-detected. "
            /\ gate[1] # "" =>
                  \A i \in RowsOf(ext.id) :
                      suggestions[i].explanation[1] # "Level gate=not-detected. "

\* "Introduction to Programming" (no level, no cue) generated against the
\* catalog of a BIT and a MIT unit with top_k = 3: both are suggested, untagged
C13_Witness ==
    \E c \in 1..Len(gm_calls) :
        LET call == gm_calls[c]
            ext == call.externals[1]
        IN  /\ ext.unit_code = "COSC101"
            /\ Gate(ext) = <<"", "none">>
            /\ {call.sheas[i].course : i \in 1..Len(call.sheas)} = {"BIT", "MIT"}
            /\ Cardinality(RowsOf(ext.id)) = 2
            /\ \A i \in RowsOf(ext.id) :
                  suggestions[i].explanation[1] = "Level gate=not-detected. "

\* a free-text column holding a non-empty value
HasText(t) == t # NoText /\ TLen(t) > 0

\* no descriptive column of the row old is non-empty in old and empty or NULL in new
NeverCleared(old, new) ==
    /\ HasText(old.description) => HasText(new.description)
    /\ HasText(old.learning_outcomes) => HasText(new.learning_outcomes)
    /\ HasText(old.topics) => HasText(new.topics)
    /\ old.source_url \notin {PyNone, ""} => new.source_url \notin {PyNone, ""}
    /\ old.retrieval_mode \notin {PyNone, ""} => new.retrieval_mode \notin {PyNone, ""}

\* C14 as stated (additive enrichment merge): no step of the workflow turns a
\* non-empty descriptive column of a stored external unit into an empty one
C14_AdditiveMerge ==
    [][\A i \in 1..Len(external_units) : \A j \in 1..Len(external_units') :
          external_units[i].id = external_units'[j].id
              => NeverCleared(external_units[i], external_units'[j])]_vars


---------------------------------------------------------------------------
(* The "Generate suggestions" handler step by step: the scoring loop, then
   clear_suggestions and insert_suggestions, each in its own get_conn
   transaction (commit at the end of the with block, no commit on an
   exception). fn_call holds the position of the handler. *)

\* no handler is between two statements
RunIdle == fn_call.fn # "generate"

RunAt(pc) == IF fn_call.fn = "generate" THEN fn_call.pc = pc ELSE FALSE

MutClearKeepsRows(store) == store

\* DELETE FROM suggestions
clear_suggestions(store) == <<>>

RunLoadSheaUnits == RunIdle /\ LoadSheaUnits

RunParseAndSave == RunIdle /\ ParseAndSave

\* the loop over the external units has built rows; nothing was written
RunScore ==
    /\ RunIdle
    /\ \E use_all \in BOOLEAN, top_k \in TopKChoices :
        \E external \in {External(use_all)}, shea \in {fetch_shea_units} :
            /\ Len(external) > 0
            /\ \A i \in 1..Len(shea) : Strip(OrEmpty(shea[i].course)) # ""
            /\ \E gates \in {Gates(external)} :
               \E pools \in {Pools(gates, shea)} :
               \E tables \in [1..Len(external) -> SimilarityTables] :
               \E calls \in {Calls(external, pools, top_k, tables, 1)} :
               \E rows \in {Rows(calls, gates)} :
                  /\ seq.suggestions + Len(rows) <= MaxSuggestionId
                  /\ gm_calls' = calls
                  /\ fn_call' = [fn |-> "generate", pc |-> "scored", rows |-> rows,
                                 before |-> suggestions]
    /\ UNCHANGED <<external_units, shea_units, suggestions, seq, session, decisions>>

\* an exception leaves the loop (a provider or a conversion raises)
RunScoreFails ==
    /\ RunIdle
    /\ Len(fetch_external_units) > 0
    /\ \A i \in 1..Len(shea_units) : Strip(OrEmpty(shea_units[i].course)) # ""
    /\ fn_call' = [fn |-> "generate", pc |-> "failed", rows |-> <<>>, before |-> suggestions]
    /\ UNCHANGED <<external_units, shea_units, suggestions, seq, session, gm_calls, decisions>>

\* clear_suggestions() returns: the DELETE is committed
RunClear ==
    /\ RunAt("scored")
    /\ suggestions' = clear_suggestions(suggestions)
    /\ fn_call' = [fn_call EXCEPT !.pc = "cleared"]
    /\ UNCHANGED <<external_units, shea_units, seq, session, gm_calls, decisions>>

\* clear_suggestions() raises: nothing is committed
RunClearFails ==
    /\ RunAt("scored")
    /\ fn_call' = [fn_call EXCEPT !.pc = "failed"]
    /\ UNCHANGED <<external_units, shea_units, suggestions, seq, session, gm_calls, decisions>>

\* insert_suggestions(rows) returns: the INSERTs are committed together
RunInsert ==
    /\ RunAt("cleared")
    /\ suggestions' = suggestions \o insert_suggestions(fn_call.rows, seq.suggestions)
    /\ seq' = [seq EXCEPT !.suggestions = @ + Len(fn_call.rows)]
    /\ fn_call' = [fn_call EXCEPT !.pc = "done"]
    /\ UNCHANGED <<external_units, shea_units, session, gm_calls, decisions>>

\* insert_suggestions(rows) raises (sqlite3.connect or executemany): its
\* transaction is not committed, the one of clear_suggestions stays committed
RunInsertFails ==
    /\ RunAt("cleared")
    /\ fn_call' = [fn_call EXCEPT !.pc = "failed"]
    /\ UNCHANGED <<external_units, shea_units, suggestions, seq, session, gm_calls, decisions>>

\* the script run ends: st.success was shown, or the exception was reported
RunReturn ==
    /\ IF fn_call.fn = "generate" THEN fn_call.pc \in {"done", "failed"} ELSE FALSE
    /\ fn_call' = NoCall
    /\ UNCHANGED <<external_units, shea_units, suggestions, seq, session, gm_calls, decisions>>

RunNext ==
    \/ RunLoadSheaUnits
    \/ RunParseAndSave
    \/ RunScore
    \/ RunScoreFails
    \/ RunClear
    \/ RunClearFails
    \/ RunInsert
    \/ RunInsertFails
    \/ RunReturn

SpecRun == Init /\ [][RunNext]_vars

\* a stored suggestion without its AUTOINCREMENT id
WithoutId(r) == [k \in DOMAIN r \ {"id"} |-> r[k]]

StoredRows == [i \in 1..Len(suggestions) |-> WithoutId(suggestions[i])]

\* C15 (bulk replace after the batch): once the loop has built the rows of every
\* unit the store is still the one found at the start of the run, and after a
\* completed run the store holds exactly the rows of that run, in order
C15_BulkReplace ==
    /\ RunAt("scored") => suggestions = fn_call.before
    /\ RunAt("cleared") => suggestions = <<>>
    /\ RunAt("done") => StoredRows = fn_call.rows

\* a completed run that found rows of an earlier run and computed other rows
C15_Witness ==
    /\ RunAt("done")
    /\ fn_call.before # <<>>
    /\ Len(fn_call.rows) > 0
    /\ [i \in 1..Len(fn_call.before) |-> WithoutId(fn_call.before[i])] # fn_call.rows

\* the loop has finished over two units while the store holds an earlier run
C15_WitnessScored ==
    /\ RunAt("scored")
    /\ fn_call.before # <<>>
    /\ Len(gm_calls) = 2

\* C16 as stated (atomic failure): after a failed run the store is as it was
\* before the run
C16_AtomicFailure == RunAt("failed") => suggestions = fn_call.before



---------------------------------------------------------------------------
(* generate_matches as the caller sees it: it returns a list or raises.    *)
(* The calls below hand it empty lists, malformed descriptor fields and    *)
(* every outcome of the summarizer.                                        *)

\* generate_matches raises: float(...get("retrieval_confidence") or 0.0) of a
\* selected pair raises ValueError (nothing in generate_matches catches it)
generate_matches_raises(externals, sheas, top_k, prov) ==
    /\ Len(externals) > 0
    /\ Len(sheas) > 0
    /\ \E e \in 1..Len(externals) :
          /\ Len(Ranked(prov.sim_matrix[e], top_k)) > 0
          /\ FloatRaises(externals[e].retrieval_confidence)

MutProviderCallsNoGuard(externals, sheas) == 4

\* the number of _compute_similarity calls of one generate_matches call
ProviderCalls(externals, sheas) ==
    IF Len(externals) = 0 \/ Len(sheas) = 0 THEN 0 ELSE 4

RECURSIVE SelectedPairs(_, _, _)
\* the number of pairs the loop selects over the first n external units
SelectedPairs(prov, top_k, n) ==
    IF n = 0 THEN 0
    ELSE SelectedPairs(prov, top_k, n - 1) + Len(Ranked(prov.sim_matrix[n], top_k))

\* the number of compare_units_natural_language calls of a call that returns
\* (one per selected pair) or raises (one per pair of the units before the
\* unit whose conversion raises)
SummarizerCalls(externals, sheas, top_k, prov) ==
    LET bad == {e \in 1..Len(externals) :
                   /\ Len(Ranked(prov.sim_matrix[e], top_k)) > 0
                   /\ FloatRaises(externals[e].retrieval_confidence)}
    IN  IF Len(externals) = 0 \/ Len(sheas) = 0 THEN 0
        ELSE IF bad = {} THEN SelectedPairs(prov, top_k, Len(externals))
        ELSE SelectedPairs(prov, top_k, (CHOOSE e \in bad : \A f \in bad : e <= f) - 1)

CoreCall(args) ==
    [externals |-> args.externals, sheas |-> args.sheas, top_k |-> args.top_k, prov |-> args.prov,
     raised |-> generate_matches_raises(args.externals, args.sheas, args.top_k, args.prov),
     provider_calls |-> ProviderCalls(args.externals, args.sheas),
     summarizer_calls |-> SummarizerCalls(args.externals, args.sheas, args.top_k, args.prov),
     results |-> IF generate_matches_raises(args.externals, args.sheas, args.top_k, args.prov)
                 THEN <<>>
                 ELSE generate_matches(args.externals, args.sheas, args.top_k, args.prov)]

CoreUnit(title, grade, credit, conf) ==
    [title |-> title, grade |-> grade, credit_points |-> credit, retrieval_confidence |-> conf]

CoreShea(title, credit) == [title |-> title, credit_points |-> credit]

\* calls with an empty external list, an empty catalog pool, or both
EmptyCalls ==
    {[externals |-> [e \in 1..n |-> CoreUnit(<<"Databases", 0>>, "Credit", "10", <<>>)],
      sheas |-> [c \in 1..m |-> CoreShea(<<"Database Systems", 0>>, "10")],
      top_k |-> k,
      prov |-> Provider([e \in 1..n |-> [c \in 1..m |-> pf]])] :
        n \in 0..MaxExt, m \in 0..MaxPool, k \in 1..MaxTopK, pf \in MultiProfiles}

MalformedTitles == {<<>>, <<"", 0>>, <<"the of and", 0>>}
MalformedGrades == {PyNone, "", "??"}
MalformedCredits == {PyNone, "", "abc"}
MalformedConfidences ==
    {<<>>, StrConfidence(""), StrConfidence(" 1 "), StrConfidence("high"), <<Pct(75)>>}

\* 1 x 1 calls on missing, empty and malformed descriptor fields, for both
\* similarity techniques
MalformedCalls ==
    {[externals |-> <<CoreUnit(t, g, c, rc)>>,
      sheas |-> <<CoreShea(t, c)>>,
      top_k |-> 1,
      prov |-> [method |-> m, llm |-> LlmOff,
                sim_matrix |-> <<<<0>>>>, name_sim |-> <<<<0>>>>,
                desc_sim |-> <<<<0>>>>, outcomes_sim |-> <<<<0>>>>]] :
        t \in MalformedTitles, g \in MalformedGrades, c \in MalformedCredits,
        rc \in MalformedConfidences, m \in {"Embeddings", "TF-IDF"}}

\* what the summarizer can do: no API key; the request or the JSON parsing
\* fails; dicts without explanation, with an empty, blank, null and a real
\* explanation
LlmOutcomes ==
    <<LlmOff,
      [enabled |-> TRUE, res |-> <<>>],
      [enabled |-> TRUE, res |-> <<[note |-> "n/a"]>>],
      [enabled |-> TRUE, res |-> <<[explanation |-> ""]>>],
      [enabled |-> TRUE, res |-> <<[explanation |-> " \n"]>>],
      [enabled |-> TRUE, res |-> <<[explanation |-> PyNone]>>],
      [enabled |-> TRUE, res |-> <<[explanation |-> " Both units teach programming basics. "]>>]>>

\* pairs whose final score lies below, on, between and above the thresholds
\* of the fallback wording (weights 0.20, 0.35, 0.35; no credit, no bonus)
SummaryProfiles ==
    {[sim |-> Pct(50), name |-> Pct(n), desc |-> Pct(d), outcomes |-> Pct(d)] :
        n \in {25, 40, 100}, d \in {30, 60, 72, 80, 100}}

SummaryGrades == {PyNone, "Fail"}

\* 1 x 1 calls under every outcome of the summarizer
SummaryCalls ==
    {[externals |-> <<CoreUnit(<<"Intro to Programming", 0>>, g, PyNone, <<>>)>>,
      sheas |-> <<CoreShea(<<"Programming Foundations", 0>>, "abc")>>,
      top_k |-> 1,
      prov |-> [Provider(<<<<pf>>>>) EXCEPT !.llm = LlmOutcomes[i]]] :
        g \in SummaryGrades, pf \in SummaryProfiles, i \in 1..Len(LlmOutcomes)}

Call_core(CallSet) ==
    /\ Idle
    /\ \E args \in CallSet : gm_calls' = <<CoreCall(args)>>
    /\ UNCHANGED <<external_units, shea_units, suggestions, seq, session, fn_call, decisions>>

EmptyNext == Call_core(EmptyCalls)
MalformedNext == Call_core(MalformedCalls)
SummaryNext == Call_core(SummaryCalls)

CoreNext ==
    \/ EmptyNext
    \/ MalformedNext
    \/ SummaryNext

SpecCore == Init /\ [][CoreNext]_vars





\* a MatchResult of the call with every field in its range
WellFormed(call, r) ==
    /\ r.external_idx \in 1..Len(call.externals)
    /\ r.shea_idx \in 1..Len(call.sheas)
    /\ r.score >= 0 /\ r.score <= One
    /\ r.confidence_band \in {"High", "Medium", "Low", "Flagged"}
    /\ Len(r.explanation) > 0
    /\ \A k \in {"name_sim", "desc_sim", "outcomes_sim", "credit_sim"} : r[k] >= 0 /\ r[k] <= One

\* C17 as stated (the core never raises): on non-empty lists generate_matches
\* returns, with a well-formed MatchResult for every selected pair
C17_NeverRaises ==
    \A i \in 1..Len(gm_calls) :
        LET call == gm_calls[i]
        IN  Len(call.externals) > 0 /\ Len(call.sheas) > 0
                => /\ ~call.raised
                   /\ Len(call.results) = SelectedPairs(call.prov, call.top_k, Len(call.externals))
                   /\ \A j \in 1..Len(call.results) : WellFormed(call, call.results[j])

\* C18 (empty input): with an empty external list or an empty catalog pool
\* generate_matches returns the empty list without raising and without a call
\* of the similarity provider or of the summarizer
C18_EmptyInput ==
    \A i \in 1..Len(gm_calls) :
        LET call == gm_calls[i]
        IN  Len(call.externals) = 0 \/ Len(call.sheas) = 0
                => /\ ~call.raised
                   /\ call.results = <<>>
                   /\ call.provider_calls = 0
                   /\ call.summarizer_calls = 0

\* a call with external units and an empty catalog pool has returned
C18_Witness ==
    \E i \in 1..Len(gm_calls) :
        /\ Len(gm_calls[i].externals) = MaxExt
        /\ Len(gm_calls[i].sheas) = 0
        /\ gm_calls[i].results = <<>>

\* a call with a catalog pool and no external unit has returned
C18_WitnessNoExternal ==
    \E i \in 1..Len(gm_calls) :
        /\ Len(gm_calls[i].externals) = 0
        /\ Len(gm_calls[i].sheas) = MaxPool
        /\ gm_calls[i].results = <<>>



\* the summarizer is not configured, its call failed, or the explanation it
\* returned is missing, empty or blank
NoSummary(llm) ==
    \/ ~llm.enabled
    \/ llm.res = <<>>
    \/ "explanation" \notin DOMAIN llm.res[1]
    \/ Strip(llm.res[1].explanation) = ""

\* the last piece of an explanation: the elaboration
Elaboration(r) == r.explanation[Len(r.explanation)]

\* the fallback sentence with the wording w for the pair and score of r
SentenceWith(call, r, w) ==
    "AI-style summary: " \o TextStr(call.externals[r.external_idx].title) \o " and "
        \o TextStr(call.sheas[r.shea_idx].title) \o " show " \o w
        \o " alignment overall (score " \o Fmt(r.score, 2) \o "). "
        \o "The comparison is based on overlap between unit descriptions and learning outcomes. "
        \o "Please review specific outcome verbs and scope depth before final approval."

C20_WitnessModerate ==
    \E i \in 1..Len(gm_calls) :
        /\ gm_calls[i].prov.llm = [enabled |-> TRUE, res |-> <<>>]
        /\ Len(gm_calls[i].results) = 1
        /\ gm_calls[i].results[1].score = Pct(50)
        /\ Elaboration(gm_calls[i].results[1]) = SentenceWith(gm_calls[i], gm_calls[i].results[1], "moderate")

\* a non-passing grade caps a pair of high similarity: the wording follows the
\* stored score
C20_WitnessCapped ==
    \E i \in 1..Len(gm_calls) :
        /\ gm_calls[i].prov.llm = [enabled |-> TRUE, res |-> <<[explanation |-> " \n"]>>]
        /\ Len(gm_calls[i].results) = 1
        /\ gm_calls[i].results[1].confidence_band = "Flagged"
        /\ gm_calls[i].results[1].score = Pct(20)
        /\ WeightedSum(Parts(gm_calls[i].externals[1], gm_calls[i].sheas[1], gm_calls[i].prov, 1, 1)) >= Pct(75)
        /\ Elaboration(gm_calls[i].results[1]) = SentenceWith(gm_calls[i], gm_calls[i].results[1], "low")

\* the summarizer's own text is used when it returns one
C20_WitnessSummary ==
    \E i \in 1..Len(gm_calls) :
        /\ Len(gm_calls[i].results) = 1
        /\ Elaboration(gm_calls[i].results[1]) = "Both units teach programming basics."



\* the pieces of the explanation of r that are the text
PiecesEqual(r, text) == {k \in 1..Len(r.explanation) : r.explanation[k] = text}

\* C19 (guardrails are visible): the explanation of a result begins with the
\* do-not-auto-approve warning iff the unit's grade is non-passing, and carries
\* the low-evidence reason, as its reason, iff outcomes < 0.15 and desc < 0.20;
\* neither text occurs anywhere else
C19_GuardrailsVisible ==
    \A i \in 1..Len(gm_calls) : \A j \in 1..Len(gm_calls[i].results) :
        LET r == gm_calls[i].results[j]
            flagged == NonPassing(gm_calls[i], r)
        IN  /\ PiecesEqual(r, FlagWarning) = IF flagged THEN {1} ELSE {}
            /\ PiecesEqual(r, LowEvidenceReason)
                   = IF LowEvidence(r) THEN {IF flagged THEN 2 ELSE 1} ELSE {}

\* a result under both guardrails: capped at 0.20, flagged, with both texts
C19_Witness ==
    \E i \in 1..Len(gm_calls) : \E j \in 1..Len(gm_calls[i].results) :
        LET r == gm_calls[i].results[j]
        IN  /\ NonPassing(gm_calls[i], r)
            /\ LowEvidence(r)
            /\ r.confidence_band = "Flagged"
            /\ r.explanation[1] = FlagWarning
            /\ r.explanation[2] = LowEvidenceReason

\* a result under the low-evidence guardrail only
C19_WitnessLowEvidence ==
    \E i \in 1..Len(gm_calls) : \E j \in 1..Len(gm_calls[i].results) :
        LET r == gm_calls[i].results[j]
        IN  /\ ~NonPassing(gm_calls[i], r)
            /\ LowEvidence(r)
            /\ r.explanation[1] = LowEvidenceReason

\* a result of a non-passing grade with content evidence: the warning only
C19_WitnessFlagOnly ==
    \E i \in 1..Len(gm_calls) : \E j \in 1..Len(gm_calls[i].results) :
        LET r == gm_calls[i].results[j]
        IN  /\ NonPassing(gm_calls[i], r)
            /\ r.outcomes_sim < Pct(15) /\ r.desc_sim = Pct(20)
            /\ r.explanation[1] = FlagWarning
            /\ PiecesEqual(r, LowEvidenceReason) = {}



---------------------------------------------------------------------------
(* The similarity provider (_compute_similarity, src/src/matching.py) and   *)
(* the technique of each of the four provider calls of generate_matches.    *)
(* The two techniques are oracles that depend on the texts only: emb is the *)
(* matrix cosine_similarity(emb_a, emb_b) of the embeddings, cos the matrix *)
(* of cosines of the TF-IDF rows of all_texts = texts_a + texts_b.          *)

\* the try block: every step succeeds, or the import, the model load, the
\* encoding of texts_a or the encoding of texts_b raises
Backends == {"ok", "import_fails", "load_fails", "encode_a_fails", "encode_b_fails"}

\* cosine_similarity(mat[: len(texts_a)], mat[len(texts_a) :])
LexicalSim(cos, n, m) == [i \in 1..n |-> [j \in 1..m |-> cos[i][n + j]]]

MutComputeSimilarityMixed(emb, cos, n, m, backend) ==
    IF backend = "ok" THEN [sim |-> emb, method |-> "Embeddings"]
    ELSE IF backend = "encode_b_fails" THEN [sim |-> emb, method |-> "TF-IDF"]
    ELSE [sim |-> LexicalSim(cos, n, m), method |-> "TF-IDF"]

MutComputeSimilarityStale(emb, cos, n, m, backend) ==
    IF backend = "ok" THEN [sim |-> emb, method |-> "Embeddings"]
    ELSE IF backend = "load_fails"
    THEN [sim |-> [i \in 1..n |-> [j \in 1..m |-> 0]], method |-> "TF-IDF"]
    ELSE [sim |-> LexicalSim(cos, n, m), method |-> "TF-IDF"]

\* _compute_similarity(texts_a, texts_b) with n = len(texts_a), m = len(texts_b)
_compute_similarity(emb, cos, n, m, backend) ==
    IF backend = "ok" THEN [sim |-> emb, method |-> "Embeddings"]
    ELSE [sim |-> LexicalSim(cos, n, m), method |-> "TF-IDF"]

\* the four text lists generate_matches hands to the provider, in call order:
\* _build_text, title, _content_text, outcomes
TextKinds == <<"sim", "name", "desc", "outcomes">>

EmbeddingProfiles ==
    <<[sim |-> Pct(30), name |-> Pct(100), desc |-> Pct(10), outcomes |-> Pct(5)],
      [sim |-> Pct(60), name |-> Pct(50), desc |-> Pct(40), outcomes |-> Pct(30)],
      [sim |-> Pct(45), name |-> Pct(80), desc |-> Pct(90), outcomes |-> Pct(90)]>>

LexicalProfiles ==
    <<[sim |-> Pct(20), name |-> Pct(70), desc |-> Pct(15), outcomes |-> Pct(10)],
      [sim |-> Pct(10), name |-> Pct(0), desc |-> Pct(25), outcomes |-> Pct(45)],
      [sim |-> Pct(35), name |-> Pct(60), desc |-> Pct(75), outcomes |-> Pct(70)]>>

\* the oracles of a call on n external and m catalog units: for every text
\* kind the n x m embedding matrix and the (n+m) x (n+m) TF-IDF cosines
\* (v selects one of two pairs of oracles)
TechniqueEnv(n, m, v) ==
    [emb |-> [k \in {TextKinds[i] : i \in 1..4} |->
                 [e \in 1..n |-> [c \in 1..m |-> EmbeddingProfiles[((e + c + v) % 3) + 1][k]]]],
     cos |-> [k \in {TextKinds[i] : i \in 1..4} |->
                 [a \in 1..(n + m) |-> [b \in 1..(n + m) |->
                     IF a = b THEN One
                     ELSE LexicalProfiles[((a + 2 * b + v) % 3) + 1][k]]]]]

\* the i-th provider call of generate_matches
ProviderCall(env, n, m, avail, i) ==
    _compute_similarity(env.emb[TextKinds[i]], env.cos[TextKinds[i]], n, m, avail[i])

\* sim_matrix, method = ...; name_sim, _ = ...; desc_sim, _ = ...; outcomes_sim, _ = ...
TechniqueProvider(env, n, m, avail) ==
    [method |-> ProviderCall(env, n, m, avail, 1).method,
     llm |-> LlmOff,
     sim_matrix |-> ProviderCall(env, n, m, avail, 1).sim,
     name_sim |-> ProviderCall(env, n, m, avail, 2).sim,
     desc_sim |-> ProviderCall(env, n, m, avail, 3).sim,
     outcomes_sim |-> ProviderCall(env, n, m, avail, 4).sim]

\* one generate_matches call: avail[i] is the state of the embedding backend
\* at the i-th provider call, techniques[i] the technique that computed its matrix
TechniqueCall(args, avail) ==
    LET n == Len(args.externals)
        m == Len(args.sheas)
        prov == TechniqueProvider(args.env, n, m, avail)
    IN  [externals |-> args.externals, sheas |-> args.sheas, top_k |-> args.top_k,
         env |-> args.env, avail |-> avail, prov |-> prov,
         techniques |-> [i \in 1..4 |-> ProviderCall(args.env, n, m, avail, i).method],
         results |-> generate_matches(args.externals, args.sheas, args.top_k, prov)]

TechniqueGrades == {"Credit", "Fail"}

\* inputs of the calls: n <= MaxExt external units against two catalog units
TechniqueCalls ==
    UNION {{[externals |-> [e \in 1..n |-> CoreUnit(<<"Databases", e>>, g, "10", <<>>)],
             sheas |-> [c \in 1..2 |-> CoreShea(<<"Database Systems", c>>, "10")],
             top_k |-> k,
             env |-> TechniqueEnv(n, 2, v)] :
                g \in TechniqueGrades, k \in 1..2, v \in 1..2} : n \in 1..MaxExt}

\* the backend is up, down, or fails between the provider calls
Availabilities ==
    {<<"ok", "ok", "ok", "ok">>,
     <<"import_fails", "import_fails", "import_fails", "import_fails">>,
     <<"load_fails", "load_fails", "load_fails", "load_fails">>,
     <<"encode_b_fails", "encode_b_fails", "encode_b_fails", "encode_b_fails">>,
     <<"ok", "load_fails", "ok", "ok">>,
     <<"ok", "ok", "encode_a_fails", "encode_b_fails">>,
     <<"encode_a_fails", "ok", "ok", "ok">>}

\* a direct call of the provider
Call_compute_similarity ==
    /\ Idle
    /\ \E n \in 1..MaxExt, m \in 1..MaxPool, v \in 1..2, k \in 1..4, backend \in Backends :
          \E env \in {TechniqueEnv(n, m, v)} :
              fn_call' = [fn |-> "_compute_similarity", n |-> n, m |-> m,
                          emb |-> env.emb[TextKinds[k]], cos |-> env.cos[TextKinds[k]],
                          backend |-> backend,
                          ret |-> _compute_similarity(env.emb[TextKinds[k]], env.cos[TextKinds[k]],
                                                      n, m, backend)]
    /\ UNCHANGED <<external_units, shea_units, suggestions, seq, session, gm_calls, decisions>>

\* a first generate_matches call
Call_generate_first ==
    /\ Idle
    /\ \E args \in TechniqueCalls, avail \in Availabilities :
          gm_calls' = <<TechniqueCall(args, avail)>>
    /\ UNCHANGED <<external_units, shea_units, suggestions, seq, session, fn_call, decisions>>

\* the next call, on the same external units, catalog units and top_k
Call_generate_again ==
    /\ Len(gm_calls) = 1
    /\ fn_call = NoCall
    /\ "avail" \in DOMAIN gm_calls[1]
    /\ \E avail \in Availabilities :
          gm_calls' = gm_calls \o <<TechniqueCall(gm_calls[1], avail)>>
    /\ UNCHANGED <<external_units, shea_units, suggestions, seq, session, fn_call, decisions>>

ProviderNext ==
    \/ Call_compute_similarity
    \/ Call_generate_first
    \/ Call_generate_again

SpecProvider == Init /\ [][ProviderNext]_vars



\* C22 (similarity provider fallback): the provider returns the embedding
\* matrix with tag "Embeddings" iff every step of the embedding attempt
\* succeeded; otherwise every entry is the TF-IDF cosine of the same pair of
\* texts and the tag is "TF-IDF"; the matrix has len(texts_a) rows of
\* len(texts_b) entries
C22_ProviderFallback ==
    fn_call.fn = "_compute_similarity" =>
        LET c == fn_call
        IN  /\ (c.ret.method = "Embeddings") = (c.backend = "ok")
            /\ c.ret.method \in {"Embeddings", "TF-IDF"}
            /\ DOMAIN c.ret.sim = 1..c.n
            /\ \A i \in 1..c.n : DOMAIN c.ret.sim[i] = 1..c.m
            /\ c.ret.method = "Embeddings"
                   => \A i \in 1..c.n : \A j \in 1..c.m : c.ret.sim[i][j] = c.emb[i][j]
            /\ c.ret.method = "TF-IDF"
                   => \A i \in 1..c.n : \A j \in 1..c.m : c.ret.sim[i][j] = c.cos[i][c.n + j]

\* the encoding of texts_b raised after texts_a was encoded: a full TF-IDF
\* matrix that differs from the embedding matrix in every entry
C22_Witness ==
    /\ fn_call.fn = "_compute_similarity"
    /\ fn_call.backend = "encode_b_fails"
    /\ fn_call.n = MaxExt /\ fn_call.m = MaxPool
    /\ fn_call.ret.method = "TF-IDF"
    /\ \A i \in 1..fn_call.n : \A j \in 1..fn_call.m : fn_call.ret.sim[i][j] # fn_call.emb[i][j]

\* the embedding attempt succeeded
C22_WitnessEmbeddings ==
    /\ fn_call.fn = "_compute_similarity"
    /\ fn_call.backend = "ok"
    /\ fn_call.ret = [sim |-> fn_call.emb, method |-> "Embeddings"]



\* two consecutive calls on the same external units, catalog units and top_k
TwoCalls ==
    /\ Len(gm_calls) = 2
    /\ gm_calls[1].externals = gm_calls[2].externals
    /\ gm_calls[1].sheas = gm_calls[2].sheas
    /\ gm_calls[1].top_k = gm_calls[2].top_k

ReportsMethod(r, tag) ==
    \E k \in 1..Len(r.explanation) :
        /\ Len(r.explanation[k]) >= Len(". Method=" \o tag \o ". ")
        /\ SubSeq(r.explanation[k], 1, Len(". Method=" \o tag \o ". ")) = ". Method=" \o tag \o ". "

\* C30 as stated (one technique per generation call): the four matrices of a
\* call are computed by the same technique, and every result reports it
C30_OneTechnique ==
    \A i \in 1..Len(gm_calls) :
        /\ \A k \in 1..4 : gm_calls[i].techniques[k] = gm_calls[i].techniques[1]
        /\ \A j \in 1..Len(gm_calls[i].results) :
              \A k \in 1..4 : ReportsMethod(gm_calls[i].results[j], gm_calls[i].techniques[k])



\* the retrieval step has stored a result for the external unit
IsEnriched(ext) == ext.retrieval_confidence # <<>> /\ ext.retrieval_mode # PyNone

\* C23 as stated (retrieval before matching): every external unit that
\* "Generate suggestions" has scored had been enriched by the retrieval step
C23_RetrievalBeforeMatching ==
    \A i \in 1..Len(gm_calls) : \A e \in 1..Len(gm_calls[i].externals) :
        IsEnriched(gm_calls[i].externals[e])



---------------------------------------------------------------------------
(* enrich_external_unit (src/src/retrieval_agent.py): the loop over the     *)
(* ranked candidate URLs.  A URL is its rank; the pages are oracles: for    *)
(* every URL the confidence _score_quality gives to what the Playwright     *)
(* retrieval and the static retrieval extract (0 when the fetch fails).     *)

\* largest number of candidate URLs
MaxUrls == 6

\* urls[:5]
VisitedUrls(n) == Min(n, 5)

\* _retrieve_playwright(url): success=conf >= 0.4
PlaywrightResult(url, conf) ==
    [success |-> conf >= Pct(40), source_url |-> url, retrieval_mode |-> "playwright_dom",
     retrieval_confidence |-> conf]

\* _retrieve_static(url): success=conf >= 0.35
StaticResult(url, conf) ==
    [success |-> conf >= Pct(35), source_url |-> url, retrieval_mode |-> "static",
     retrieval_confidence |-> conf]

\* RetrievalResult(False, "", "none", 0.0, ...)
NoResult == [success |-> FALSE, source_url |-> 0, retrieval_mode |-> "none",
             retrieval_confidence |-> 0]

MutNeverReturnsEarly(p) == FALSE

\* if p.success: return p
ReturnsEarly(p) == p.success

RECURSIVE EnrichLoop(_, _, _, _)
\* the loop from URL i on: best is <<>> for None, attempts the retrievals made
\* so far; the value is what the call returns and every retrieval it made
EnrichLoop(pages, i, best, attempts) ==
    IF i > VisitedUrls(Len(pages))
    THEN [ret |-> IF best # <<>> THEN best[1] ELSE NoResult, attempts |-> attempts]
    ELSE LET p == PlaywrightResult(i, pages[i][1])
             best_p == IF p.retrieval_confidence
                              > (IF best # <<>> THEN best[1].retrieval_confidence ELSE 0)
                       THEN <<p>> ELSE best
             s == StaticResult(i, pages[i][2])
             best_s == IF best_p = <<>> \/ s.retrieval_confidence > best_p[1].retrieval_confidence
                       THEN <<s>> ELSE best_p
         IN  IF ReturnsEarly(p) THEN [ret |-> p, attempts |-> attempts \o <<p>>]
             ELSE EnrichLoop(pages, i + 1, best_s, attempts \o <<p, s>>)

\* enrich_external_unit on the ranked candidate URLs 1..Len(pages)
enrich_external_unit(pages) ==
    IF Len(pages) = 0 THEN [ret |-> NoResult, attempts |-> <<>>]
    ELSE EnrichLoop(pages, 1, <<>>, <<>>)

\* what the two retrievals find at one URL: <<Playwright confidence, static
\* confidence>>; both fail, Playwright below and static above the thresholds,
\* both thin, Playwright just successful
PageOutcomes ==
    {<<0, 0>>, <<Pct(35), Pct(95)>>, <<Pct(30), Pct(35)>>, <<Pct(40), 0>>}

Call_enrich_external_unit ==
    /\ Idle
    /\ \E n \in 0..MaxUrls : \E pages \in [1..n -> PageOutcomes] :
          \E out \in {enrich_external_unit(pages)} :
              fn_call' = [fn |-> "enrich_external_unit", pages |-> pages,
                          ret |-> out.ret, attempts |-> out.attempts]
    /\ UNCHANGED <<external_units, shea_units, suggestions, seq, session, gm_calls, decisions>>

RetrievalNext ==
    \/ Call_enrich_external_unit

SpecRetrieval == Init /\ [][RetrievalNext]_vars

\* C24 (retrieval attempt order): only the first five URLs are visited, in
\* ranked order; at every URL Playwright is tried first and the static
\* retrieval only after an unsuccessful Playwright retrieval of that URL; a
\* successful Playwright result ends the call and is returned; without
\* candidate URL the result is mode "none", confidence 0, no success
C24_AttemptOrder ==
    fn_call.fn = "enrich_external_unit" =>
        LET at == fn_call.attempts
            n == Len(fn_call.pages)
        IN  /\ \A k \in 1..Len(at) : at[k].source_url \in 1..Min(n, 5)
            /\ \A k \in 1..(Len(at) - 1) : at[k].source_url <= at[k + 1].source_url
            /\ \A k \in 1..Len(at) :
                  at[k].retrieval_mode = "playwright_dom"
                      => /\ k = 1 \/ at[k - 1].source_url = at[k].source_url - 1
                         /\ at[k].source_url = 1 \/ k > 1
                         /\ at[k].success => k = Len(at) /\ fn_call.ret = at[k]
            /\ \A k \in 1..Len(at) :
                  at[k].retrieval_mode = "static"
                      => /\ k > 1
                         /\ at[k - 1].retrieval_mode = "playwright_dom"
                         /\ at[k - 1].source_url = at[k].source_url
                         /\ ~at[k - 1].success
            /\ \A k \in 1..Len(at) :
                  at[k].retrieval_mode = "playwright_dom" /\ ~at[k].success
                      => k < Len(at) /\ at[k + 1].retrieval_mode = "static"
            /\ (\A k \in 1..Len(at) : ~(at[k].retrieval_mode = "playwright_dom" /\ at[k].success))
                  => Len(at) = 2 * Min(n, 5)
            /\ fn_call.ret.retrieval_mode \in {"playwright_dom", "static", "none"}
            /\ n = 0 => at = <<>> /\ fn_call.ret = NoResult
            /\ n > 0 => \E k \in 1..Len(at) : fn_call.ret = at[k]

\* six candidate URLs, no Playwright success at the first five: ten retrievals,
\* none at the sixth URL
C24_Witness ==
    /\ fn_call.fn = "enrich_external_unit"
    /\ Len(fn_call.pages) = 6
    /\ fn_call.pages[6] = <<Pct(40), 0>>
    /\ Len(fn_call.attempts) = 10
    /\ fn_call.ret.retrieval_mode = "static"

\* Playwright succeeds at the third URL after static retrievals of the first two
C24_WitnessEarly ==
    /\ fn_call.fn = "enrich_external_unit"
    /\ Len(fn_call.pages) >= 4
    /\ Len(fn_call.attempts) = 5
    /\ fn_call.ret.success /\ fn_call.ret.source_url = 3

\* C25 as stated (best available retrieval): the returned result has a
\* retrieval_confidence that is at least that of every retrieval of the call
C25_BestAvailable ==
    fn_call.fn = "enrich_external_unit" =>
        \A k \in 1..Len(fn_call.attempts) :
            fn_call.ret.retrieval_confidence >= fn_call.attempts[k].retrieval_confidence



\* the stored suggestions of an external unit, in table order
SuggestionsOf(ext_id) ==
    LET IsOf(row) == row.external_unit_id = ext_id
    IN  SelectSeq(suggestions, IsOf)

\* the positions of the catalog unit with the id in a pool
PoolPositions(pool, shea_id) == {c \in 1..Len(pool) : pool[c].id = shea_id}

\* C26 (pool-consistent references): after a generation run the suggestions
\* stored for a unit are its results in order, each referencing the catalog
\* unit at the result's position of the pool that was scored, with the
\* similarities the provider gave for that position; where the unit's gate has
\* a target group with a catalog unit, the referenced units are of that group
C26_PoolConsistent ==
    \A c \in 1..Len(gm_calls) :
        LET call == gm_calls[c]
            ext == call.externals[1]
            gate == Gate(ext)
            catalog == fetch_shea_units
            rows == SuggestionsOf(ext.id)
        IN  /\ Len(rows) = Len(call.results)
            /\ \A k \in 1..Len(rows) :
                  /\ PoolPositions(call.sheas, rows[k].shea_unit_id) = {call.results[k].shea_idx}
                  /\ \A pos \in PoolPositions(call.sheas, rows[k].shea_unit_id) :
                        /\ rows[k].name_sim = Clamp01(call.prov.name_sim[1][pos])
                        /\ rows[k].desc_sim = Clamp01(call.prov.desc_sim[1][pos])
                  /\ \E i \in 1..Len(catalog) : catalog[i].id = rows[k].shea_unit_id
                  /\ (gate[1] # "" /\ InGroup(catalog, gate[1]) # {})
                        => \E i \in InGroup(catalog, gate[1]) : catalog[i].id = rows[k].shea_unit_id

\* a master-level unit generated with top_k = 3 against the catalog of a BIT
\* and a MIT unit: its only suggestion references the MIT unit, which is at
\* position 2 of the catalog and position 1 of the pool
C26_Witness ==
    \E c \in 1..Len(gm_calls) :
        LET call == gm_calls[c]
            ext == call.externals[1]
            catalog == fetch_shea_units
        IN  /\ Gate(ext)[1] = "MIT"
            /\ call.top_k = 3
            /\ Len(catalog) = 2
            /\ catalog[1].course = "BIT" /\ catalog[2].course = "MIT"
            /\ Len(SuggestionsOf(ext.id)) = 1
            /\ SuggestionsOf(ext.id)[1].shea_unit_id = catalog[2].id
            /\ call.results[1].shea_idx = 1



---------------------------------------------------------------------------
(* Review & Approval (src/app.py, src/src/db.py): decisions and the review *)
(* listing                                                                  *)

MaxDecisions == 2

\* statuses of the selectbox "Decision" (the CHECK constraint of the decisions
\* table also admits 'rejected' and 'needs_review', which are stored like
\* 'approved')
DecisionStatuses == {"approved", "override"}

\* the reviewer text input left at its default value, the notes left empty
DefaultReviewer == "MVP Reviewer"

\* upsert_decision: INSERT INTO decisions; the table is never deleted from, so
\* the AUTOINCREMENT id is the number of rows; the status passes the CHECK
\* constraint of the schema, so the IntegrityError branch is not taken
upsert_decision(store, suggestion_id, status, override_shea_unit_id) ==
    Append(store, [id |-> Len(store) + 1,
                   suggestion_id |-> suggestion_id,
                   status |-> status,
                   override_shea_unit_id |-> override_shea_unit_id,
                   reviewer |-> DefaultReviewer,
                   notes |-> ""])

\* the rows of a table with a value in the id column (at most one)
WithId(table, id) ==
    LET Has(row) == row.id = id
    IN  SelectSeq(table, Has)

\* LEFT JOIN decisions d ON d.suggestion_id = s.id: the decisions of a
\* suggestion, or one all-NULL row
DecisionsOf(s) ==
    LET IsOf(d) == d.suggestion_id = s.id
        found == SelectSeq(decisions, IsOf)
    IN  IF Len(found) = 0 THEN <<<<>>>> ELSE [i \in 1..Len(found) |-> <<found[i]>>]

\* LEFT JOIN shea_units ov ON ov.id = d.override_shea_unit_id, COALESCE(ov.unit_code, '')
OverrideCode(d) ==
    IF d = <<>> \/ d[1].override_shea_unit_id = <<>> THEN ""
    ELSE LET ov == WithId(shea_units, d[1].override_shea_unit_id[1])
         IN  IF Len(ov) = 0 THEN "" ELSE ov[1].unit_code

\* one row of the SELECT, for a suggestion, its units and a decision (<<>> for
\* the all-NULL row)
ListingRow(s, eu, su, d) ==
    [suggestion_id |-> s.id,
     external_unit_code |-> eu.unit_code,
     shea_unit_code |-> su.unit_code,
     score |-> s.score,
     confidence_band |-> s.confidence_band,
     decision_id |-> IF d = <<>> THEN 0 ELSE d[1].id,
     decision_status |-> IF d = <<>> THEN "pending" ELSE d[1].status,
     override_shea_unit_code |-> OverrideCode(d),
     reviewer |-> IF d = <<>> THEN "" ELSE d[1].reviewer,
     notes |-> IF d = <<>> THEN "" ELSE d[1].notes]

RECURSIVE Joined(_)
\* FROM suggestions s JOIN external_units eu JOIN shea_units su LEFT JOIN
\* decisions d: pairs <<score, row>>
Joined(sugs) ==
    IF Len(sugs) = 0 THEN <<>>
    ELSE LET s == Head(sugs)
             eu == WithId(external_units, s.external_unit_id)
             su == WithId(shea_units, s.shea_unit_id)
             ds == DecisionsOf(s)
         IN  (IF Len(eu) = 0 \/ Len(su) = 0 THEN <<>>
              ELSE [i \in 1..Len(ds) |-> <<s.score, ListingRow(s, eu[1], su[1], ds[i])>>])
                 \o Joined(Tail(sugs))

\* ORDER BY s.score DESC of pairs <<score, row>>: the rows by descending
\* score, rows of equal score in their order
OrderedByScore(joined) ==
    LET Before(j, i) == joined[j][1] > joined[i][1] \/ (joined[j][1] = joined[i][1] /\ j < i)
        Rank(i) == 1 + Cardinality({j \in 1..Len(joined) : Before(j, i)})
    IN  [p \in 1..Len(joined) |-> joined[CHOOSE i \in 1..Len(joined) : Rank(i) = p][2]]

\* fetch_suggestions: the joined rows ORDER BY s.score DESC (the set names the
\* joined rows, CHOOSE takes its one element)
fetch_suggestions ==
    CHOOSE listing \in {OrderedByScore(joined) : joined \in {Joined(suggestions)}} : TRUE

\* "Save decision" on the page "Review & Approval": the page offers the form
\* when fetch_suggestions returns rows; the suggestion id is one of the
\* listing, the override unit one of the catalog or none, and it is passed on
\* only with the status "override"
SaveDecision ==
    \E sug_rows \in {fetch_suggestions} :
        /\ Len(sug_rows) > 0
        /\ Len(decisions) < MaxDecisions
        /\ \E k \in 1..Len(sug_rows), status \in DecisionStatuses,
              override_label \in {<<>>} \cup {<<shea_units[i].id>> : i \in 1..Len(shea_units)} :
              LET override_id == IF status = "override" THEN override_label ELSE <<>>
              IN  decisions' = upsert_decision(decisions, sug_rows[k].suggestion_id, status, override_id)
        /\ UNCHANGED <<external_units, shea_units, suggestions, seq, session, gm_calls, fn_call>>

\* the workflow with the review page: the catalog with a MIT unit, which can
\* be loaded twice; the transcripts of one unit; one retrieved page; one
\* provider table, the box "use all historical external units" ticked
ReviewLoadSheaUnits ==
    LoadSheaUnitsFrom({c \in Catalogs : c[2].course = "MIT"}, 2 * MaxSheaId)
ReviewParseAndSave == ParseAndSaveFrom({t \in Transcripts : Len(t) = 1}, MaxRowId)
ReviewRunMcpCheck ==
    RunMcpCheckFrom({TRUE}, {<<f>> : f \in {g \in RetrievedFields : g.aqf_level # ""}})
ReviewGenerateSuggestions ==
    GenerateSuggestionsFrom({TRUE}, {2}, {t \in SimilarityTables : t[1] # t[2]})

ReviewNext ==
    \/ ReviewLoadSheaUnits
    \/ ReviewParseAndSave
    \/ ReviewRunMcpCheck
    \/ ReviewGenerateSuggestions
    \/ SaveDecision

SpecReview == Init /\ [][ReviewNext]_vars

\* the external unit and the catalog unit a suggestion references exist
ReferencesExist(s) ==
    /\ Len(WithId(external_units, s.external_unit_id)) = 1
    /\ Len(WithId(shea_units, s.shea_unit_id)) = 1

\* C27 (referential integrity of suggestions): after any sequence of workflow
\* operations every stored suggestion references an external unit and a
\* catalog unit that exist in the store
C27_ReferentialIntegrity ==
    \A i \in 1..Len(suggestions) : ReferencesExist(suggestions[i])



\* the rows of the review listing for a suggestion id
ListedFor(listing, id) == {k \in 1..Len(listing) : listing[k].suggestion_id = id}

\* the decision records of a suggestion id
RecordedFor(id) == {k \in 1..Len(decisions) : decisions[k].suggestion_id = id}

\* C28 (one decision per suggestion): each suggestion has at most one decision
\* record, and the review listing contains each suggestion whose units exist
\* exactly once and no suggestion twice
C28_OneDecisionPerSuggestion ==
    \A i \in 1..Len(suggestions) :
        LET s == suggestions[i]
            listed == ListedFor(fetch_suggestions, s.id)
        IN  /\ Cardinality(RecordedFor(s.id)) <= 1
            /\ Cardinality(listed) <= 1
            /\ ReferencesExist(s) => Cardinality(listed) = 1

\* a step of "Generate suggestions" that inserted rows
Regenerated == seq'.suggestions > seq.suggestions

\* a step that recorded a decision for a suggestion id
Recorded(id) ==
    /\ Len(decisions') = Len(decisions) + 1
    /\ decisions'[Len(decisions')].suggestion_id = id

\* the listing shows a decision for a suggestion id
Decided(listing, id) ==
    \E k \in ListedFor(listing, id) : listing[k].decision_status # "pending"

\* C29 (no stale decisions): right after suggestions are regenerated every
\* suggestion of the review listing is 'pending', whatever decisions were
\* recorded before; on every other step a suggestion the listing shows as
\* decided was decided before the step or has its decision recorded by it
C29_NoStaleDecisions ==
    [][\A before \in {fetch_suggestions}, after \in {fetch_suggestions'} :
           \A k \in 1..Len(after) :
              after[k].decision_status # "pending"
                 => /\ ~Regenerated
                    /\ \/ Decided(before, after[k].suggestion_id)
                       \/ Recorded(after[k].suggestion_id)]_vars

\* suggestions were regenerated after a decision: a decision record names a
\* suggestion id that is no longer stored, and the listing shows the new
\* suggestions, all pending
C29_Witness ==
    /\ \E d \in 1..Len(decisions) :
          \A i \in 1..Len(suggestions) : suggestions[i].id # decisions[d].suggestion_id
    /\ Len(fetch_suggestions) > 0
    /\ \A k \in 1..Len(fetch_suggestions) : fetch_suggestions[k].decision_status = "pending"

\* the new suggestions are pending, then one of them is decided: it is shown
\* decided next to a decision record of an earlier run
C29_WitnessDecidedAgain ==
    /\ \E d \in 1..Len(decisions) :
          \A i \in 1..Len(suggestions) : suggestions[i].id # decisions[d].suggestion_id
    /\ \E k \in 1..Len(fetch_suggestions) : fetch_suggestions[k].decision_status # "pending"


==========================================================================
